---- MODULE Spec2Model ----
(***************************************************************************)
(* A model of the in-memory OCI registry engine (package ocimem): the      *)
(* Writer methods PushBlob, PushBlobChunked, PushBlobChunkedResume,        *)
(* MountBlob and PushManifest, together with the upload Buffer they hand   *)
(* out; and of ociregistry.Funcs, the Interface built from a table of      *)
(* functions.                                                              *)
(*                                                                         *)
(* Every engine method runs under the registry mutex r.mu, so each method  *)
(* is one atomic action.  The methods of one Buffer run under the buffer's *)
(* own mutex, so each of them is one atomic action too.                    *)
(***************************************************************************)
EXTENDS Integers, Sequences, FiniteSets, TLC

\* ------------------------------------------------------------------------
\* Bounds of the model
\* ------------------------------------------------------------------------
MaxLen == 1        \* bytes the upload sessions hold together
MaxBuffers == 1    \* upload buffers ever allocated
ScriptLen == 2     \* longest content the scripted upload client sends

Byte == 0 .. 1

BytesUpTo(n) == UNION {[1 .. k -> Byte] : k \in 0 .. n}

\* ------------------------------------------------------------------------
\* Digests.  A digest string "<algorithm>:<hex>" is the record
\* [alg, hex]; the hex part of a hash is an injective numbering of the
\* hashed bytes (no collisions), different for each algorithm.
\* ------------------------------------------------------------------------
RECURSIVE Enc(_)
Enc(b) == IF Len(b) = 0 THEN 0
          ELSE Enc(SubSeq(b, 1, Len(b) - 1)) * 5 + b[Len(b)] + 1

Hex(alg, data) == IF alg = "sha256" THEN Enc(data) ELSE 2 * Enc(data) + 1

\* digest.FromBytes: the canonical algorithm is sha256.
FromBytes(data) == [alg |-> "sha256", hex |-> Enc(data)]

\* The empty digest string.
NoDigest == [alg |-> "", hex |-> 0]

\* A digest string that is not well formed.
BadDigest == [alg |-> "sha256", hex |-> -1]

\* Digest.Validate: a registered algorithm and a well-formed hex part.
Validate(dig) == dig.alg \in {"sha256", "sha512"} /\ dig.hex >= 0

\* Digest.Verifier / Verified after writing data.
Verified(dig, data) == dig.hex = Hex(dig.alg, data)

\* ------------------------------------------------------------------------
\* Errors.  An error value is the OCI code it carries: Nil for no error,
\* Uncoded for an error that matches no OCI code.  Wrapping with %w keeps
\* the code, formatting with %v flattens the error to text and drops it.
\* ------------------------------------------------------------------------
Nil == "nil"
Uncoded == "uncoded"
ErrDigestInvalid == "DIGEST_INVALID"
ErrNameInvalid == "NAME_INVALID"
ErrRangeInvalid == "RANGE_INVALID"
ErrDenied == "DENIED"
ErrBlobUnknown == "BLOB_UNKNOWN"
ErrNameUnknown == "NAME_UNKNOWN"
ErrBlobUploadInvalid == "BLOB_UPLOAD_INVALID"
ErrManifestInvalid == "MANIFEST_INVALID"

WrapW(e) == e
WrapV(e) == IF e = Nil THEN Nil ELSE Uncoded

\* ------------------------------------------------------------------------
\* Descriptors, blobs, repositories
\* ------------------------------------------------------------------------
Descriptor(mt, dig, size) == [mediaType |-> mt, digest |-> dig, size |-> size]

ZeroDescriptor == Descriptor("", NoDigest, 0)

OctetStream == "application/octet-stream"

Put(f, k, v) == [x \in (DOMAIN f) \cup {k} |-> IF x = k THEN v ELSE f[x]]

Empty == [x \in {} |-> 0]

EmptyRepo == [blobs |-> Empty, manifests |-> Empty, tags |-> Empty, uploads |-> Empty]

\* ociref.IsValidRepository on the names the model uses.
IsValidRepository(name) == name \in {"a", "b"}

VARIABLES
    cfg,      \* r.cfg: [ImmutableTags, LaxChildReferences], fixed at construction
    repos,    \* r.repos: repository name -> repository
    heap,     \* the Buffers allocated so far; a *Buffer is an index into heap
    writer,   \* the BlobWriter each caller currently holds (0: none)
    last,     \* the last call made and what it returned
    scn,      \* the scripted upload client: its script and its position
    slices,   \* byte slices the callers own, and who else holds their arrays
    inflight, \* the PushManifest call that is executing and holds r.mu
    funcs,    \* the *Funcs value whose methods are called
    net,      \* the client's operation in progress and the requests it
              \* has handed to the HTTP transport
    env,      \* the environment variables and files of the auth configuration
    filt,     \* the calls in progress through the Immutable wrapper, by caller
    ib        \* the image builder: its manifest and its PushLayer call in progress

vars == <<cfg, repos, heap, writer, last, scn, slices, inflight, funcs, net, env, filt, ib>>

\* No caller slice is in use; no call is in the middle of its execution.
NoSlices == [bytes |-> <<>>, sharedBy |-> <<>>]
NoInflight == [pc |-> "idle"]

\* The client has no operation in progress; nothing is set in the
\* environment and no configuration file exists.
NoNet == [pc |-> "idle", sent |-> <<>>]
NoEnv == {}

\* No call is in progress through the Immutable wrapper.
ImmCallers == {"c1", "c2"}
NoFiltCall == [pc |-> "idle"]
NoFilt == [c \in ImmCallers |-> NoFiltCall]

\* The media types of an image manifest and of an image index.
ManifestMediaType == "application/vnd.oci.image.manifest.v1+json"
IndexMediaType == "application/vnd.oci.image.index.v1+json"

\* A nil *Descriptor.
NoDesc == [MediaType |-> "", Size |-> 0, Digest |-> ""]

\* New: an image manifest with nothing in it, and no PushLayer call running.
New ==
    [ MediaType |-> ManifestMediaType, ArtifactType |-> "", Manifests |-> <<>>,
      Config |-> NoDesc, Layers |-> <<>>, Subject |-> NoDesc ]
NoBuilder == [manifest |-> New, pc |-> "idle"]

\* (*Funcs)(nil)
NilFuncs == [isNil |-> TRUE, set |-> {}, NewError |-> FALSE]

Callers == {"w1", "w2"}

NoCall == [op |-> "none", caller |-> "", repo |-> "", desc |-> ZeroDescriptor,
           data |-> <<>>, mediaType |-> "", tags |-> <<>>, id |-> 0, offset |-> 0,
           readErr |-> FALSE, err |-> Nil, ret |-> ZeroDescriptor, h |-> 0,
           from |-> ""]

\* ------------------------------------------------------------------------
\* Helpers of the engine that live outside the Writer file
\* ------------------------------------------------------------------------

\* CheckDescriptor(desc, data): the digest is well formed; when data is
\* given it hashes canonically to the digest and has the descriptor's size;
\* the media type is not empty.  hasData is FALSE for a nil data argument.
CheckDescriptor(desc, data, hasData) ==
    IF ~Validate(desc.digest) THEN ErrDigestInvalid
    ELSE IF hasData /\ FromBytes(data) # desc.digest THEN ErrDigestInvalid
    ELSE IF hasData /\ desc.size # Len(data) THEN ErrDigestInvalid
    ELSE IF desc.mediaType = "" THEN Uncoded
    ELSE Nil

\* r.makeRepo(repoName): the repository, created when it does not exist yet.
makeRepo(rs, repoName) ==
    IF ~IsValidRepository(repoName) THEN [err |-> ErrNameInvalid, repos |-> rs]
    ELSE IF repoName \in DOMAIN rs THEN [err |-> Nil, repos |-> rs]
    ELSE [err |-> Nil, repos |-> Put(rs, repoName, EmptyRepo)]

\* r.GetBlob(repo, digest): the stored bytes with their descriptor.
GetBlob(rs, repoName, dig) ==
    IF repoName \in DOMAIN rs /\ dig \in DOMAIN rs[repoName].blobs
    THEN LET b == rs[repoName].blobs[dig]
         IN [err |-> Nil, data |-> b.data,
             desc |-> Descriptor(b.mediaType, dig, Len(b.data))]
    ELSE [err |-> ErrBlobUnknown, data |-> <<>>, desc |-> ZeroDescriptor]

\* ------------------------------------------------------------------------
\* PushBlob
\* ------------------------------------------------------------------------

\* A store that forgets the descriptor's media type.
storeBlob_NoMediaType(repo, desc, data) ==
    [repo EXCEPT !.blobs = Put(@, desc.digest, [mediaType |-> "", data |-> data])]

\* repo.blobs[desc.Digest] = &blob{mediaType: desc.MediaType, data: data}
storeBlob(repo, desc, data) ==
    [repo EXCEPT !.blobs = Put(@, desc.digest, [mediaType |-> desc.mediaType, data |-> data])]

\* The error PushBlob reports for a descriptor that fails CheckDescriptor.
invalidDescriptor(e) == WrapV(e)

\* content is the reader: the bytes it delivers and whether reading fails.
DoPushBlob(rs, repoName, desc, content) ==
    IF content.err THEN [err |-> Uncoded, ret |-> ZeroDescriptor, repos |-> rs]
    ELSE LET chk == CheckDescriptor(desc, content.data, TRUE) IN
         IF chk # Nil
         THEN [err |-> invalidDescriptor(chk), ret |-> ZeroDescriptor, repos |-> rs]
         ELSE LET mk == makeRepo(rs, repoName) IN
              IF mk.err # Nil THEN [err |-> mk.err, ret |-> ZeroDescriptor, repos |-> rs]
              ELSE [err |-> Nil, ret |-> desc,
                    repos |-> [mk.repos EXCEPT ![repoName] = storeBlob(@, desc, content.data)]]

PushBlob(repoName, desc, content) ==
    LET res == DoPushBlob(repos, repoName, desc, content) IN
    /\ repos' = res.repos
    /\ last' = [NoCall EXCEPT !.op = "PushBlob", !.repo = repoName, !.desc = desc,
                              !.data = content.data, !.readErr = content.err,
                              !.err = res.err, !.ret = res.ret]
    /\ UNCHANGED <<cfg, heap, writer>>

\* ------------------------------------------------------------------------
\* The upload Buffer (an ociregistry.BlobWriter)
\* ------------------------------------------------------------------------

\* newUUID(): an id no buffer has had before.
newUUID(hp) == Len(hp) + 1

\* NewBuffer(commit, uuid): an open, empty buffer; an empty uuid asks for
\* a fresh one.  repoName stands for the repository the commit callback
\* has captured.
NewBuffer(hp, repoName, id) ==
    [uuid |-> IF id = 0 THEN newUUID(hp) ELSE id,
     buf |-> <<>>, checkStartOffset |-> 0, state |-> "open",
     desc |-> ZeroDescriptor, repo |-> repoName]

\* Buffer.Write(data): a write is accepted only while the session is open;
\* the first write after an attach checks the start offset against the
\* bytes accumulated so far (-1: no check pending).
DoWrite(b, data) ==
    IF b.state # "open" THEN [err |-> Uncoded, b |-> b]
    ELSE IF b.checkStartOffset # -1 /\ Len(b.buf) # b.checkStartOffset
    THEN [err |-> ErrRangeInvalid, b |-> b]
    ELSE [err |-> Nil, b |-> [b EXCEPT !.buf = @ \o data, !.checkStartOffset = -1]]

\* Buffer.GetBlob(): the descriptor and bytes of the committed buffer.
BufferGetBlob(b) == [desc |-> b.desc, data |-> b.buf]

\* A commit callback that files the bytes under the digest of no bytes.
commitCallback_WrongKey(rs, b) ==
    LET got == BufferGetBlob(b) IN
    [rs EXCEPT ![b.repo] =
        [@ EXCEPT !.blobs = Put(@, FromBytes(<<>>),
                                [mediaType |-> got.desc.mediaType, data |-> got.data])]]

\* The commit callback PushBlobChunkedResume hands to NewBuffer.
commitCallback(rs, b) ==
    LET got == BufferGetBlob(b) IN
    [rs EXCEPT ![b.repo] =
        [@ EXCEPT !.blobs = Put(@, got.desc.digest,
                                [mediaType |-> got.desc.mediaType, data |-> got.data])]]

\* A commit that takes the caller's digest on trust.
DoCommit_NoVerify(rs, b, dig) ==
    IF b.state # "open" THEN [err |-> Uncoded, ret |-> ZeroDescriptor, b |-> b, repos |-> rs]
    ELSE LET d == Descriptor(OctetStream, dig, Len(b.buf))
             nb == [b EXCEPT !.state = "committed", !.desc = d]
         IN [err |-> Nil, ret |-> d, b |-> nb, repos |-> commitCallback(rs, nb)]

\* Buffer.Commit(dig): verify the accumulated bytes against dig, record
\* the descriptor, run the commit callback.
DoCommit(rs, b, dig) ==
    IF b.state # "open" THEN [err |-> Uncoded, ret |-> ZeroDescriptor, b |-> b, repos |-> rs]
    ELSE IF FromBytes(b.buf) # dig
    THEN [err |-> ErrDigestInvalid, ret |-> ZeroDescriptor, b |-> b, repos |-> rs]
    ELSE LET d == Descriptor(OctetStream, dig, Len(b.buf))
             nb == [b EXCEPT !.state = "committed", !.desc = d]
         IN [err |-> Nil, ret |-> d, b |-> nb, repos |-> commitCallback(rs, nb)]

\* Buffer.Cancel(): the session ends without storing anything.
DoCancel(b) == [b EXCEPT !.state = "cancelled"]

\* ------------------------------------------------------------------------
\* PushBlobChunked / PushBlobChunkedResume
\* ------------------------------------------------------------------------

\* b := repo.uploads[id]: the buffer registered under id, 0 for nil.
lookupUpload(repo, id) == IF id \in DOMAIN repo.uploads THEN repo.uploads[id] ELSE 0

\* A resume that forgets to record the offset.
setStartOffset_Keep(b, offset) == b

\* b.checkStartOffset = offset
setStartOffset(b, offset) == [b EXCEPT !.checkStartOffset = offset]

\* A resume that forgets to register the session it creates.
registerUpload_Skip(repo, uuid, h) == repo

\* repo.uploads[b.ID()] = b
registerUpload(repo, uuid, h) == [repo EXCEPT !.uploads = Put(@, uuid, h)]

\* A resume that turns away a caller when the session already exists.
reattach_Refuse(rs, hp, found, offset) ==
    [err |-> ErrBlobUploadInvalid, h |-> 0, repos |-> rs, heap |-> hp]

\* The session was found (b != nil): hand it out again as it is.
reattach(rs, hp, found, offset) ==
    [err |-> Nil, h |-> found, repos |-> rs,
     heap |-> [hp EXCEPT ![found] = setStartOffset(@, offset)]]

DoPushBlobChunkedResume(rs, hp, repoName, id, offset) ==
    LET mk == makeRepo(rs, repoName) IN
    IF mk.err # Nil THEN [err |-> mk.err, h |-> 0, repos |-> rs, heap |-> hp]
    ELSE LET found == lookupUpload(mk.repos[repoName], id) IN
         IF found # 0
         THEN reattach(mk.repos, hp, found, offset)
         ELSE LET nb == NewBuffer(hp, repoName, id)
                  h == Len(hp) + 1
              IN [err |-> Nil, h |-> h,
                  repos |-> [mk.repos EXCEPT ![repoName] = registerUpload(@, nb.uuid, h)],
                  heap |-> Append(hp, setStartOffset(nb, offset))]

PushBlobChunkedResume(c, repoName, id, offset) ==
    LET res == DoPushBlobChunkedResume(repos, heap, repoName, id, offset) IN
    /\ Len(res.heap) <= MaxBuffers
    /\ repos' = res.repos
    /\ heap' = res.heap
    /\ writer' = IF res.err = Nil THEN [writer EXCEPT ![c] = res.h] ELSE writer
    /\ last' = [NoCall EXCEPT !.op = "PushBlobChunkedResume", !.caller = c,
                              !.repo = repoName, !.id = id, !.offset = offset,
                              !.err = res.err, !.h = res.h]
    /\ UNCHANGED cfg

\* PushBlobChunked is PushBlobChunkedResume with an empty id and offset 0.
PushBlobChunked(c, repoName) ==
    LET res == DoPushBlobChunkedResume(repos, heap, repoName, 0, 0) IN
    /\ Len(res.heap) <= MaxBuffers
    /\ repos' = res.repos
    /\ heap' = res.heap
    /\ writer' = IF res.err = Nil THEN [writer EXCEPT ![c] = res.h] ELSE writer
    /\ last' = [NoCall EXCEPT !.op = "PushBlobChunked", !.caller = c,
                              !.repo = repoName, !.err = res.err, !.h = res.h]
    /\ UNCHANGED cfg

\* w.Write(data) by the caller holding writer w.
Write(c, data) ==
    /\ writer[c] # 0
    /\ LET res == DoWrite(heap[writer[c]], data) IN
       /\ heap' = [heap EXCEPT ![writer[c]] = res.b]
       /\ last' = [NoCall EXCEPT !.op = "Write", !.caller = c, !.data = data,
                                 !.err = res.err, !.h = writer[c]]
    /\ UNCHANGED <<cfg, repos, writer>>

\* w.Commit(dig) by the caller holding writer w.
Commit(c, dig) ==
    /\ writer[c] # 0
    /\ LET res == DoCommit(repos, heap[writer[c]], dig) IN
       /\ heap' = [heap EXCEPT ![writer[c]] = res.b]
       /\ repos' = res.repos
       /\ last' = [NoCall EXCEPT !.op = "Commit", !.caller = c,
                                 !.desc = Descriptor("", dig, 0),
                                 !.err = res.err, !.ret = res.ret, !.h = writer[c]]
    /\ UNCHANGED <<cfg, writer>>

\* w.Cancel() by the caller holding writer w.
Cancel(c) ==
    /\ writer[c] # 0
    /\ heap' = [heap EXCEPT ![writer[c]] = DoCancel(@)]
    /\ last' = [NoCall EXCEPT !.op = "Cancel", !.caller = c, !.h = writer[c]]
    /\ UNCHANGED <<cfg, repos, writer>>

\* w.Close(): the caller lets go of the writer; the session stays.
Close(c) ==
    /\ writer[c] # 0
    /\ writer' = [writer EXCEPT ![c] = 0]
    /\ last' = [NoCall EXCEPT !.op = "Close", !.caller = c, !.h = writer[c]]
    /\ UNCHANGED <<cfg, repos, heap>>

\* ------------------------------------------------------------------------
\* Manifests.  The wire form of a manifest is a list of references, two
\* bytes each: the kind of the reference (0: blob, 1: manifest, 2: subject)
\* and the content it points to.  Content n is n zero bytes; 3 stands for a
\* descriptor with a malformed digest.
\* ------------------------------------------------------------------------
kindBlob == "blob"
kindManifest == "manifest"
kindSubjectManifest == "subject"

RefTarget(x) == [i \in 1 .. x |-> 0]

RefDescriptor(x) ==
    IF x = 3 THEN Descriptor("mtRef", BadDigest, 1)
    ELSE Descriptor("mtRef", FromBytes(RefTarget(x)), x)

RefKind(k) == IF k = 0 THEN kindBlob ELSE IF k = 1 THEN kindManifest ELSE kindSubjectManifest

\* getManifestInfo(mediaType, data): the descriptors the manifest refers
\* to, each with its kind; an error when the bytes do not parse.
getManifestInfo(mediaType, data) ==
    IF Len(data) % 2 = 1 \/ \E i \in 1 .. Len(data) : (i % 2 = 1 /\ data[i] > 2)
    THEN [err |-> ErrManifestInvalid, descriptors |-> <<>>]
    ELSE [err |-> Nil,
          descriptors |-> [i \in 1 .. (Len(data) \div 2) |->
                             [kind |-> RefKind(data[2 * i - 1]),
                              desc |-> RefDescriptor(data[2 * i])]]]

\* ociref.IsValidTag on the tags the model uses.
IsValidTag(tag) == tag \in {"t1", "t2"}

\* ------------------------------------------------------------------------
\* PushManifest
\* ------------------------------------------------------------------------

\* A reference check that does not look for the blobs.
refError_NoBlobCheck(repo, info) ==
    IF CheckDescriptor(info.desc, <<>>, FALSE) # Nil THEN Uncoded
    ELSE IF info.kind = kindManifest /\ info.desc.digest \notin DOMAIN repo.manifests
    THEN Uncoded
    ELSE Nil

\* The body of the loop of checkManifestReferences, for one descriptor.
refError(repo, info) ==
    IF CheckDescriptor(info.desc, <<>>, FALSE) # Nil THEN Uncoded
    ELSE IF info.kind = kindBlob /\ info.desc.digest \notin DOMAIN repo.blobs
    THEN Uncoded
    ELSE IF info.kind = kindManifest /\ info.desc.digest \notin DOMAIN repo.manifests
    THEN Uncoded
    ELSE Nil

checkManifestReferences(c, rs, repoName, mediaType, data) ==
    LET info == getManifestInfo(mediaType, data) IN
    IF info.err # Nil THEN [err |-> info.err, info |-> <<>>]
    ELSE IF c.LaxChildReferences THEN [err |-> Nil, info |-> info.descriptors]
    ELSE IF repoName \notin DOMAIN rs THEN [err |-> Uncoded, info |-> <<>>]
    ELSE IF \E i \in 1 .. Len(info.descriptors) :
                refError(rs[repoName], info.descriptors[i]) # Nil
    THEN [err |-> Uncoded, info |-> <<>>]
    ELSE [err |-> Nil, info |-> info.descriptors]

\* A digest check that only looks at the syntax of the digest.
digestError_SyntaxOnly(dig, data) ==
    IF dig = NoDigest THEN Nil
    ELSE IF ~Validate(dig) THEN WrapW(ErrDigestInvalid)
    ELSE Nil

\* The check of the digest the caller supplied ("" when none).
digestError(dig, data) ==
    IF dig = NoDigest THEN Nil
    ELSE IF ~Validate(dig) THEN WrapW(ErrDigestInvalid)
    ELSE IF ~Verified(dig, data) THEN WrapW(ErrDigestInvalid)
    ELSE Nil

\* A loop over the tags that never looks at the tags the repository has.
tagLoop_Mutable(c, repo, tags, i, dig, mediaType) ==
    IF \E j \in 1 .. Len(tags) : ~IsValidTag(tags[j])
    THEN [done |-> TRUE, err |-> Uncoded, ret |-> ZeroDescriptor]
    ELSE [done |-> FALSE, err |-> Nil, ret |-> ZeroDescriptor]

\* The loop over the requested tags: done when the loop returns from
\* PushManifest, with what it returns.
RECURSIVE tagLoop(_, _, _, _, _, _)
tagLoop(c, repo, tags, i, dig, mediaType) ==
    IF i > Len(tags) THEN [done |-> FALSE, err |-> Nil, ret |-> ZeroDescriptor]
    ELSE IF ~IsValidTag(tags[i]) THEN [done |-> TRUE, err |-> Uncoded, ret |-> ZeroDescriptor]
    ELSE IF c.ImmutableTags /\ tags[i] \in DOMAIN repo.tags
    THEN LET currDesc == repo.tags[tags[i]] IN
         IF dig = currDesc.digest
         THEN IF currDesc.mediaType # mediaType
              THEN [done |-> TRUE, err |-> WrapW(ErrDenied), ret |-> ZeroDescriptor]
              ELSE [done |-> TRUE, err |-> Nil, ret |-> currDesc]
         ELSE [done |-> TRUE, err |-> WrapW(ErrDenied), ret |-> ZeroDescriptor]
    ELSE tagLoop(c, repo, tags, i + 1, dig, mediaType)

\* A store that applies the tags and leaves the manifest out.
storeManifest_TagsOnly(repo, desc, data, info, tags) ==
    [repo EXCEPT
       !.tags = [t \in (DOMAIN @) \cup {tags[i] : i \in 1 .. Len(tags)} |->
                    IF \E i \in 1 .. Len(tags) : tags[i] = t THEN desc ELSE @[t]]]

\* repo.manifests[dig] = &blob{...}; repo.tags[tag] = desc for every tag.
storeManifest(repo, desc, data, info, tags) ==
    [repo EXCEPT
       !.manifests = Put(@, desc.digest,
                         [mediaType |-> desc.mediaType, data |-> data, info |-> info]),
       !.tags = [t \in (DOMAIN @) \cup {tags[i] : i \in 1 .. Len(tags)} |->
                    IF \E i \in 1 .. Len(tags) : tags[i] = t THEN desc ELSE @[t]]]

\* params is [digest, tags]; nil params are an empty digest and no tags.
\* stored tells whether the call reached the store of line 656.
DoPushManifest(c, rs, repoName, data, mediaType, params) ==
    LET mk == makeRepo(rs, repoName) IN
    IF mk.err # Nil THEN [err |-> mk.err, ret |-> ZeroDescriptor, repos |-> rs, stored |-> FALSE]
    ELSE
    LET rs1 == mk.repos
        digErr == digestError(params.digest, data)
        dig == IF params.digest # NoDigest THEN params.digest ELSE FromBytes(data)
        desc == Descriptor(mediaType, dig, Len(data))
        loop == tagLoop(c, rs1[repoName], params.tags, 1, dig, mediaType)
        chk == IF params.digest = NoDigest
               THEN WrapV(CheckDescriptor(desc, data, TRUE))
               ELSE IF desc.mediaType = "" THEN Uncoded ELSE Nil
        refs == checkManifestReferences(c, rs1, repoName, desc.mediaType, data)
    IN
    IF digErr # Nil THEN [err |-> digErr, ret |-> ZeroDescriptor, repos |-> rs1, stored |-> FALSE]
    ELSE IF loop.done THEN [err |-> loop.err, ret |-> loop.ret, repos |-> rs1, stored |-> FALSE]
    ELSE IF chk # Nil THEN [err |-> chk, ret |-> ZeroDescriptor, repos |-> rs1, stored |-> FALSE]
    ELSE IF refs.err # Nil THEN [err |-> WrapV(refs.err), ret |-> ZeroDescriptor, repos |-> rs1, stored |-> FALSE]
    ELSE [err |-> Nil, ret |-> desc,
          repos |-> [rs1 EXCEPT ![repoName] =
                        storeManifest(@, desc, data, refs.info, params.tags)],
          stored |-> TRUE]

PushManifest(repoName, data, mediaType, params) ==
    LET res == DoPushManifest(cfg, repos, repoName, data, mediaType, params) IN
    /\ repos' = res.repos
    /\ last' = [NoCall EXCEPT !.op = "PushManifest", !.repo = repoName, !.data = data,
                              !.mediaType = mediaType, !.tags = params.tags,
                              !.desc = Descriptor("", params.digest, 0),
                              !.err = res.err, !.ret = res.ret]
    /\ UNCHANGED <<cfg, heap, writer>>

\* ------------------------------------------------------------------------
\* Inputs
\* ------------------------------------------------------------------------
\* Digests a caller may offer for content data: the canonical one, the
\* canonical one of other content, a sha512 one, a malformed one.
DigestsFor(data) ==
    {FromBytes(data), FromBytes(data \o <<0>>), [alg |-> "sha512", hex |-> Hex("sha512", data)],
     BadDigest}

KnownIDs == {heap[i].uuid : i \in 1 .. Len(heap)}

NoScript == [pc |-> "idle", b |-> <<>>, k |-> 0, id |-> 0]

Init ==
    /\ cfg = [ImmutableTags |-> FALSE, LaxChildReferences |-> FALSE]
    /\ repos = Empty
    /\ heap = <<>>
    /\ writer = [c \in Callers |-> 0]
    /\ last = NoCall
    /\ scn = NoScript
    /\ slices = NoSlices
    /\ inflight = NoInflight
    /\ funcs = NilFuncs
    /\ net = NoNet
    /\ env = NoEnv
    /\ filt = NoFilt
    /\ ib = NoBuilder

\* --- the monolithic blob push on its own -------------------------------
BlobInputs == {<<>>, <<0>>, <<0, 1>>}

BlobPush ==
    /\ \E repoName \in {"a", "B!"}, data \in BlobInputs, mt \in {"", "mtA", "mtB"},
          rdErr \in BOOLEAN :
         \E dig \in DigestsFor(data), size \in {Len(data), Len(data) + 1} :
           PushBlob(repoName, Descriptor(mt, dig, size), [data |-> data, err |-> rdErr])
    /\ UNCHANGED <<scn, slices, inflight, funcs, net, env, filt, ib>>

NextBlob == BlobPush

SpecBlob == Init /\ [][NextBlob]_vars

\* --- chunked uploads ---------------------------------------------------
\* Calls on a malformed repository name fail before they look at the
\* other arguments, so one choice of those is enough.
UploadStart ==
    /\ \E c \in Callers, repoName \in {"a", "B!"} : PushBlobChunked(c, repoName)
    /\ UNCHANGED <<scn, slices, inflight, funcs, net, env, filt, ib>>

\* Resume offsets: with sessions of 0 .. MaxLen bytes these give an offset
\* equal to, below and above the bytes a session holds.
ResumeOffsets == {0, 1}

UploadResume ==
    /\ \/ \E c \in Callers, id \in KnownIDs \cup {-1}, offset \in ResumeOffsets :
             PushBlobChunkedResume(c, "a", id, offset)
       \/ \E c \in Callers : PushBlobChunkedResume(c, "B!", -1, 0)
    /\ UNCHANGED <<scn, slices, inflight, funcs, net, env, filt, ib>>

\* Bytes held by all the upload sessions together.
RECURSIVE HeldBytes(_)
HeldBytes(hp) == IF hp = <<>> THEN 0 ELSE Len(Head(hp).buf) + HeldBytes(Tail(hp))

UploadWrite ==
    /\ \E c \in Callers, data \in {<<0>>} :
          /\ writer[c] # 0
          /\ HeldBytes([heap EXCEPT ![writer[c]] = DoWrite(@, data).b]) <= MaxLen
          /\ Write(c, data)
    /\ UNCHANGED <<scn, slices, inflight, funcs, net, env, filt, ib>>

UploadCommit ==
    /\ \E c \in Callers :
          /\ writer[c] # 0
          /\ \E dig \in DigestsFor(heap[writer[c]].buf) : Commit(c, dig)
    /\ UNCHANGED <<scn, slices, inflight, funcs, net, env, filt, ib>>

UploadCancel ==
    /\ \E c \in Callers : Cancel(c)
    /\ UNCHANGED <<scn, slices, inflight, funcs, net, env, filt, ib>>

UploadClose ==
    /\ \E c \in Callers : Close(c)
    /\ UNCHANGED <<scn, slices, inflight, funcs, net, env, filt, ib>>

NextUpload ==
    \/ UploadStart
    \/ UploadResume
    \/ UploadWrite
    \/ UploadCommit
    \/ UploadCancel
    \/ UploadClose

SpecUpload == Init /\ [][NextUpload]_vars

\* --- a resumed upload, step by step ------------------------------------
\* The client of the chunked-upload test: start a session, write b[1..k],
\* close, resume the session by its id at offset k, write the rest, commit
\* with the canonical digest of b.  Another client pushes blobs meanwhile.
InitResume ==
    /\ cfg = [ImmutableTags |-> FALSE, LaxChildReferences |-> FALSE]
    /\ repos = Empty
    /\ heap = <<>>
    /\ writer = [c \in Callers |-> 0]
    /\ last = NoCall
    /\ \E b \in BytesUpTo(ScriptLen) : \E k \in 0 .. Len(b) :
          scn = [pc |-> "start", b |-> b, k |-> k, id |-> 0]
    /\ slices = NoSlices
    /\ inflight = NoInflight
    /\ funcs = NilFuncs
    /\ net = NoNet
    /\ env = NoEnv
    /\ filt = NoFilt
    /\ ib = NoBuilder

Goto(pc) == IF last'.err = Nil THEN pc ELSE "failed"

ScnStart ==
    /\ scn.pc = "start"
    /\ PushBlobChunked("w1", "a")
    /\ scn' = [scn EXCEPT !.pc = Goto("write1"),
                          !.id = IF last'.err = Nil THEN heap'[last'.h].uuid ELSE 0]
    /\ UNCHANGED <<slices, inflight, funcs, net, env, filt, ib>>

ScnWrite1 ==
    /\ scn.pc = "write1"
    /\ Write("w1", SubSeq(scn.b, 1, scn.k))
    /\ scn' = [scn EXCEPT !.pc = Goto("close")]
    /\ UNCHANGED <<slices, inflight, funcs, net, env, filt, ib>>

ScnClose ==
    /\ scn.pc = "close"
    /\ Close("w1")
    /\ scn' = [scn EXCEPT !.pc = Goto("resume")]
    /\ UNCHANGED <<slices, inflight, funcs, net, env, filt, ib>>

ScnResume ==
    /\ scn.pc = "resume"
    /\ PushBlobChunkedResume("w1", "a", scn.id, scn.k)
    /\ scn' = [scn EXCEPT !.pc = Goto("write2")]
    /\ UNCHANGED <<slices, inflight, funcs, net, env, filt, ib>>

ScnWrite2 ==
    /\ scn.pc = "write2"
    /\ Write("w1", SubSeq(scn.b, scn.k + 1, Len(scn.b)))
    /\ scn' = [scn EXCEPT !.pc = Goto("commit")]
    /\ UNCHANGED <<slices, inflight, funcs, net, env, filt, ib>>

ScnCommit ==
    /\ scn.pc = "commit"
    /\ Commit("w1", FromBytes(scn.b))
    /\ scn' = [scn EXCEPT !.pc = Goto("done")]
    /\ UNCHANGED <<slices, inflight, funcs, net, env, filt, ib>>

ScnOtherPush ==
    /\ \E data \in {<<>>, <<0>>}, mt \in {"mtA"} :
          PushBlob("a", Descriptor(mt, FromBytes(data), Len(data)),
                   [data |-> data, err |-> FALSE])
    /\ UNCHANGED <<scn, slices, inflight, funcs, net, env, filt, ib>>

NextResume ==
    \/ ScnStart
    \/ ScnWrite1
    \/ ScnClose
    \/ ScnResume
    \/ ScnWrite2
    \/ ScnCommit
    \/ ScnOtherPush

SpecResume == InitResume /\ [][NextResume]_vars

\* --- manifests and what they refer to ------------------------------------
InitManifest ==
    /\ cfg \in [ImmutableTags : BOOLEAN, LaxChildReferences : BOOLEAN]
    /\ repos = Empty
    /\ heap = <<>>
    /\ writer = [c \in Callers |-> 0]
    /\ last = NoCall
    /\ scn = NoScript
    /\ slices = NoSlices
    /\ inflight = NoInflight
    /\ funcs = NilFuncs
    /\ net = NoNet
    /\ env = NoEnv
    /\ filt = NoFilt
    /\ ib = NoBuilder

\* no reference, unparseable, a blob, a manifest, a dangling subject, a
\* malformed descriptor
ManifestInputs == {<<>>, <<0>>, <<0, 0>>, <<1, 0>>, <<2, 1>>, <<0, 3>>}

ManifestPush ==
    /\ \E data \in ManifestInputs, tags \in {<<>>, <<"t1">>} :
          PushManifest("a", data, "mtA", [digest |-> NoDigest, tags |-> tags])
    /\ UNCHANGED <<scn, slices, inflight, funcs, net, env, filt, ib>>

ManifestPushWithDigest ==
    /\ \E dig \in DigestsFor(<<>>), mt \in {"", "mtA"}, repoName \in {"a", "B!"} :
          PushManifest(repoName, <<>>, mt, [digest |-> dig, tags |-> <<"t1">>])
    /\ UNCHANGED <<scn, slices, inflight, funcs, net, env, filt, ib>>

ManifestBlobPush ==
    /\ \E repoName \in {"a", "b"} :
          PushBlob(repoName, Descriptor("mtA", FromBytes(<<>>), 0),
                   [data |-> <<>>, err |-> FALSE])
    /\ UNCHANGED <<scn, slices, inflight, funcs, net, env, filt, ib>>

NextManifest ==
    \/ ManifestPush
    \/ ManifestPushWithDigest
    \/ ManifestBlobPush

SpecManifest == InitManifest /\ [][NextManifest]_vars

\* ------------------------------------------------------------------------
\* Properties
\* ------------------------------------------------------------------------

\* C1: a successful PushBlob(repo, d, b) is followed by a GetBlob(repo,
\* d.digest) that returns exactly b, with d's media type, digest and size.
C1_PushThenGet ==
    (last.op = "PushBlob" /\ last.err = Nil) =>
        LET got == GetBlob(repos, last.repo, last.desc.digest) IN
        /\ last.desc.digest = FromBytes(last.data)
        /\ last.desc.size = Len(last.data)
        /\ got.err = Nil
        /\ got.data = last.data
        /\ got.desc = last.desc
        /\ last.ret = last.desc

C1_Witness ==
    /\ last.op = "PushBlob" /\ last.err = Nil
    /\ Len(last.data) = 2
    /\ GetBlob(repos, last.repo, last.desc.digest).data = last.data

\* The content given to the last PushBlob does not match its descriptor.
Mismatched(call) ==
    /\ call.op = "PushBlob"
    /\ ~call.readErr
    /\ (FromBytes(call.data) # call.desc.digest \/ call.desc.size # Len(call.data))

\* C2: a PushBlob whose content does not match the descriptor fails with an
\* error that carries DIGEST_INVALID, and stores nothing.
C2_MismatchIsDigestInvalid ==
    [][Mismatched(last') => (last'.err = ErrDigestInvalid /\ repos' = repos)]_vars

\* C3: start, write b[1..k], resume by id at offset k, write the rest and
\* commit with the canonical digest of b: every step succeeds, and the
\* repository then holds under that digest the same bytes and size as
\* after a monolithic PushBlob of b, and commit returns the same digest
\* and size as that PushBlob.
C3_ResumedUploadEqualsMonolithic ==
    /\ scn.pc # "failed"
    /\ scn.pc = "done" =>
          LET dig == FromBytes(scn.b)
              mono == DoPushBlob(Empty, "a", Descriptor(OctetStream, dig, Len(scn.b)),
                                 [data |-> scn.b, err |-> FALSE])
              want == GetBlob(mono.repos, "a", dig)
              got == GetBlob(repos, "a", dig)
          IN /\ mono.err = Nil
             /\ got.err = Nil
             /\ got.data = want.data
             /\ got.desc.digest = want.desc.digest
             /\ got.desc.size = want.desc.size
             /\ last.op = "Commit" =>
                   (last.ret.digest = mono.ret.digest /\ last.ret.size = mono.ret.size)

C3_Witness ==
    /\ scn.pc = "done" /\ last.op = "Commit"
    /\ Len(scn.b) = 2 /\ scn.k = 1
    /\ GetBlob(repos, "a", FromBytes(scn.b)).data = scn.b

\* The blob maps of all repositories.
BlobsOf(rs) == [r \in DOMAIN rs |-> rs[r].blobs]

\* C4: Commit(dig) on an open session whose accumulated bytes do not hash
\* canonically to dig fails with DIGEST_INVALID and adds nothing to any
\* blob map.
C4_CommitMismatch ==
    [][(/\ last'.op = "Commit"
        /\ heap[last'.h].state = "open"
        /\ FromBytes(heap[last'.h].buf) # last'.desc.digest)
       => (/\ last'.err = ErrDigestInvalid
           /\ BlobsOf(repos') = BlobsOf(repos)
           /\ heap'[last'.h].buf = heap[last'.h].buf)]_vars

C4_Witness ==
    /\ last.op = "Commit" /\ last.err = ErrDigestInvalid
    /\ heap[last.h].buf = <<0>>
    /\ last.desc.digest = FromBytes(<<0, 0>>)

\* The session, if any, that id names in repository repoName.
SessionOf(rs, repoName, id) ==
    IF repoName \in DOMAIN rs THEN lookupUpload(rs[repoName], id) ELSE 0

\* The step is a PushBlobChunkedResume with the id of an existing session.
ResumesExisting ==
    /\ last'.op = "PushBlobChunkedResume"
    /\ IsValidRepository(last'.repo)
    /\ SessionOf(repos, last'.repo, last'.id) # 0

\* C5 as stated: PushBlobChunkedResume on an existing session fails with a
\* range-not-satisfiable error whenever the offset differs from the bytes
\* accumulated so far, and leaves the buffer unchanged.
C5_ResumeRejectsOffset ==
    [][(/\ ResumesExisting
        /\ last'.offset # Len(heap[SessionOf(repos, last'.repo, last'.id)].buf))
       => LET h == SessionOf(repos, last'.repo, last'.id) IN
          /\ last'.err = ErrRangeInvalid
          /\ heap'[h].buf = heap[h].buf]_vars

\* C5 amended: PushBlobChunkedResume on an existing session never fails on
\* the offset: it returns the session with its buffer unchanged and records
\* the offset.  The range-not-satisfiable error comes from the first Write
\* on the resumed session when the recorded offset differs from the bytes
\* accumulated so far, and that Write leaves the buffer unchanged.
C5_OffsetCheckedOnWrite ==
    [][/\ ResumesExisting =>
            LET h == SessionOf(repos, last'.repo, last'.id) IN
            /\ last'.err = Nil
            /\ last'.h = h
            /\ heap'[h].buf = heap[h].buf
            /\ heap'[h].checkStartOffset = last'.offset
       /\ (/\ last'.op = "Write"
           /\ heap[last'.h].state = "open"
           /\ heap[last'.h].checkStartOffset # -1
           /\ heap[last'.h].checkStartOffset # Len(heap[last'.h].buf))
          => (/\ last'.err = ErrRangeInvalid
              /\ heap'[last'.h].buf = heap[last'.h].buf)]_vars

C5_Witness ==
    /\ last.op = "PushBlobChunkedResume" /\ last.err = Nil
    /\ heap[last.h].buf = <<0>>
    /\ last.offset = 0
    /\ heap[last.h].checkStartOffset = 0

\* C6: a committed session is dropped from the repository's uploads map,
\* so no id leads back to its buffer.
C6_CommittedSessionDropped ==
    \A r \in DOMAIN repos : \A id \in DOMAIN repos[r].uploads :
        heap[repos[r].uploads[id]].state # "committed"

\* C7: PushBlobChunkedResume with the id of an open session of the
\* repository returns that same session with its bytes intact; with an id
\* unknown in the repository it succeeds and returns a new empty session
\* that is registered in the repository's uploads map under that id.
C7_ResumeReattachesOrCreates ==
    [][(last'.op = "PushBlobChunkedResume" /\ IsValidRepository(last'.repo)) =>
          LET h == SessionOf(repos, last'.repo, last'.id) IN
          IF h # 0
          THEN heap[h].state = "open" =>
                  (/\ last'.err = Nil
                   /\ last'.h = h
                   /\ writer'[last'.caller] = h
                   /\ Len(heap') = Len(heap)
                   /\ heap'[h].buf = heap[h].buf
                   /\ heap'[h].state = "open"
                   /\ heap'[h].uuid = last'.id)
          ELSE /\ last'.err = Nil
               /\ last'.h = Len(heap) + 1
               /\ writer'[last'.caller] = last'.h
               /\ Len(heap') = Len(heap) + 1
               /\ heap'[last'.h].buf = <<>>
               /\ heap'[last'.h].state = "open"
               /\ heap'[last'.h].uuid = last'.id
               /\ SessionOf(repos', last'.repo, last'.id) = last'.h]_vars

C7_Witness ==
    /\ last.op = "PushBlobChunkedResume" /\ last.err = Nil
    /\ heap[last.h].buf = <<0>>
    /\ heap[last.h].state = "open"
    /\ SessionOf(repos, last.repo, last.id) = last.h

\* The step is a PushBlobChunkedResume on an open session that another
\* caller holds a writer for.
SecondAttach ==
    /\ ResumesExisting
    /\ LET h == SessionOf(repos, last'.repo, last'.id) IN
       /\ heap[h].state = "open"
       /\ \E c \in Callers \ {last'.caller} : writer[c] = h

\* C8 as stated: a second caller's attempt to attach to a session another
\* writer is driving fails with BLOB_UPLOAD_INVALID.
C8_SecondWriterRefused ==
    [][SecondAttach => last'.err = ErrBlobUploadInvalid]_vars

\* C8 amended: the engine does not keep a session to one writer.  A
\* PushBlobChunkedResume by a second caller on an open session that another
\* caller holds succeeds and returns that same session, so both callers
\* then share its buffer and its offset check; no call on a session fails
\* with BLOB_UPLOAD_INVALID.
C8_SessionIsShared ==
    [][/\ SecondAttach =>
            LET h == SessionOf(repos, last'.repo, last'.id) IN
            /\ last'.err = Nil
            /\ last'.h = h
            /\ writer'[last'.caller] = h
            /\ \E c \in Callers \ {last'.caller} : writer'[c] = h
            /\ heap'[h].buf = heap[h].buf
            /\ heap'[h].checkStartOffset = last'.offset
       /\ last'.err # ErrBlobUploadInvalid]_vars

C8_Witness ==
    /\ last.op = "PushBlobChunkedResume" /\ last.err = Nil
    /\ writer["w1"] = last.h /\ writer["w2"] = last.h
    /\ heap[last.h].state = "open"
    /\ heap[last.h].buf = <<0>>

HasBlob(rs, repoName, dig) == repoName \in DOMAIN rs /\ dig \in DOMAIN rs[repoName].blobs

HasManifest(rs, repoName, dig) ==
    repoName \in DOMAIN rs /\ dig \in DOMAIN rs[repoName].manifests

\* Every blob and manifest the descriptors refer to is in the repository;
\* subjects are not looked at.
ChildrenPresent(rs, repoName, descriptors) ==
    \A i \in 1 .. Len(descriptors) :
        /\ descriptors[i].kind = kindBlob =>
              HasBlob(rs, repoName, descriptors[i].desc.digest)
        /\ descriptors[i].kind = kindManifest =>
              HasManifest(rs, repoName, descriptors[i].desc.digest)

\* C9: with LaxChildReferences off PushManifest succeeds only if, when it
\* is called, every blob the manifest refers to is in the same repository's
\* blobs and every manifest in its manifests; a subject that names an
\* absent manifest does not make the push fail; with LaxChildReferences on
\* the push does not depend on what is present.
C9_ChildReferences ==
    [][last'.op = "PushManifest" =>
         LET info == getManifestInfo(last'.mediaType, last'.data)
             wellFormed == \A i \in 1 .. Len(info.descriptors) :
                              CheckDescriptor(info.descriptors[i].desc, <<>>, FALSE) = Nil
             plain == /\ IsValidRepository(last'.repo)
                      /\ last'.desc.digest = NoDigest
                      /\ last'.tags = <<>>
                      /\ last'.mediaType # ""
                      /\ info.err = Nil
         IN /\ (~cfg.LaxChildReferences /\ last'.err = Nil) =>
                  ChildrenPresent(repos, last'.repo, info.descriptors)
            /\ (/\ ~cfg.LaxChildReferences
                /\ plain
                /\ wellFormed
                /\ ChildrenPresent(repos, last'.repo, info.descriptors)) => last'.err = Nil
            /\ (cfg.LaxChildReferences /\ plain) => last'.err = Nil]_vars

C9_Witness ==
    /\ ~cfg.LaxChildReferences
    /\ last.op = "PushManifest" /\ last.err = Nil
    /\ last.data = <<0, 0>>
    /\ HasBlob(repos, "a", FromBytes(<<>>))
    /\ HasManifest(repos, "a", FromBytes(<<2, 1>>))
    /\ ~HasManifest(repos, "a", FromBytes(<<0>>))

\* The manifests and tags of a repository, empty when it does not exist.
StoredIn(rs, repoName) ==
    IF repoName \in DOMAIN rs
    THEN [manifests |-> rs[repoName].manifests, tags |-> rs[repoName].tags]
    ELSE [manifests |-> Empty, tags |-> Empty]

\* C10: PushManifest (on a well-formed repository name) with a digest from
\* the caller that is malformed or does not verify against the content
\* fails with DIGEST_INVALID and stores neither the manifest nor a tag;
\* without a digest from the caller a successful push returns the canonical
\* hash of the content as digest and the content length as size.
C10_ManifestDigest ==
    [][(last'.op = "PushManifest" /\ IsValidRepository(last'.repo)) =>
         LET dig == last'.desc.digest IN
         /\ (dig # NoDigest /\ (~Validate(dig) \/ ~Verified(dig, last'.data))) =>
               /\ last'.err = ErrDigestInvalid
               /\ \A r \in {"a", "b"} : StoredIn(repos', r) = StoredIn(repos, r)
         /\ (dig = NoDigest /\ last'.err = Nil) =>
               /\ last'.ret.digest = FromBytes(last'.data)
               /\ last'.ret.size = Len(last'.data)]_vars

C10_Witness ==
    /\ last.op = "PushManifest" /\ last.repo = "a"
    /\ last.err = ErrDigestInvalid
    /\ last.desc.digest = FromBytes(<<0>>)
    /\ last.data = <<>>
    /\ last.tags = <<"t1">>
    /\ "t1" \notin DOMAIN repos["a"].tags

\* C11: a PushManifest that is rejected because the manifest does not
\* parse or refers to a blob or manifest the repository does not have
\* returns an error that carries MANIFEST_INVALID.  (The calls looked at
\* have a well-formed repository name, no digest from the caller, a media
\* type and well-formed tags, so that no earlier check rejects them; a
\* DENIED from the immutable-tags check is set aside.)
C11_ManifestInvalidCode ==
    [][(/\ last'.op = "PushManifest"
        /\ IsValidRepository(last'.repo)
        /\ last'.desc.digest = NoDigest
        /\ last'.mediaType # ""
        /\ \A i \in 1 .. Len(last'.tags) : IsValidTag(last'.tags[i])
        /\ last'.err \notin {Nil, ErrDenied}) => last'.err = ErrManifestInvalid]_vars

\* ------------------------------------------------------------------------
\* Tags
\* ------------------------------------------------------------------------

\* Delete of a manifest: removes the entry, and nothing else (references
\* to it may dangle).  Modelled where the description of the engine fixes
\* it: the entry is present and tags are mutable.
DeleteManifest(repoName, dig) ==
    /\ ~cfg.ImmutableTags
    /\ HasManifest(repos, repoName, dig)
    /\ repos' = [repos EXCEPT ![repoName].manifests =
                    [d \in (DOMAIN @) \ {dig} |-> @[d]]]
    /\ last' = [NoCall EXCEPT !.op = "DeleteManifest", !.repo = repoName,
                              !.desc = Descriptor("", dig, 0)]
    /\ UNCHANGED <<cfg, heap, writer>>

InitTags ==
    /\ cfg \in [ImmutableTags : BOOLEAN, LaxChildReferences : {FALSE}]
    /\ repos = Empty
    /\ heap = <<>>
    /\ writer = [c \in Callers |-> 0]
    /\ last = NoCall
    /\ scn = NoScript
    /\ slices = NoSlices
    /\ inflight = NoInflight
    /\ funcs = NilFuncs
    /\ net = NoNet
    /\ env = NoEnv
    /\ filt = NoFilt
    /\ ib = NoBuilder

\* two manifests without children, and one whose blob is missing
TagInputs == {<<>>, <<2, 1>>, <<0, 0>>}

TagLists == {<<"t1">>, <<"t2">>, <<"t1", "t2">>, <<"t2", "t1">>, <<"t1", "bad tag">>}

TagPush ==
    /\ \E data \in TagInputs, mt \in {"mtA", "mtB"}, tags \in TagLists :
          PushManifest("a", data, mt, [digest |-> NoDigest, tags |-> tags])
    /\ UNCHANGED <<scn, slices, inflight, funcs, net, env, filt, ib>>

TagDeleteManifest ==
    /\ \E data \in TagInputs : DeleteManifest("a", FromBytes(data))
    /\ UNCHANGED <<scn, slices, inflight, funcs, net, env, filt, ib>>

NextTags ==
    \/ TagPush
    \/ TagDeleteManifest

SpecTags == InitTags /\ [][NextTags]_vars

\* The digest PushManifest stores the content of a call under.
DigestOf(call) ==
    IF call.desc.digest # NoDigest THEN call.desc.digest ELSE FromBytes(call.data)

\* C12: in immutable-tags mode, once tag t maps to digest d1, a
\* PushManifest of t with content of another digest fails with DENIED and
\* changes nothing, so t still maps to d1; a PushManifest of t with the
\* content of d1 and the same media type succeeds, returns the descriptor
\* t maps to and changes nothing.
C12_ImmutableTag ==
    [][(/\ last'.op = "PushManifest"
        /\ cfg.ImmutableTags
        /\ IsValidRepository(last'.repo)
        /\ digestError(last'.desc.digest, last'.data) = Nil
        /\ Len(last'.tags) >= 1
        /\ last'.repo \in DOMAIN repos
        /\ last'.tags[1] \in DOMAIN repos[last'.repo].tags) =>
         LET t == last'.tags[1]
             cur == repos[last'.repo].tags[t]
         IN /\ DigestOf(last') # cur.digest =>
                  /\ last'.err = ErrDenied
                  /\ repos' = repos
                  /\ repos'[last'.repo].tags[t] = cur
            /\ (DigestOf(last') = cur.digest /\ last'.mediaType = cur.mediaType) =>
                  /\ last'.err = Nil
                  /\ last'.ret = cur
                  /\ repos' = repos]_vars

C12_Witness ==
    /\ cfg.ImmutableTags
    /\ last.op = "PushManifest" /\ last.err = ErrDenied
    /\ last.tags = <<"t1">>
    /\ "a" \in DOMAIN repos /\ "t1" \in DOMAIN repos["a"].tags
    /\ repos["a"].tags["t1"].digest = FromBytes(<<>>)
    /\ last.data = <<2, 1>>

\* C13: in immutable-tags mode a PushManifest with well-formed tags fails
\* with DENIED, and changes nothing, whenever one of its tags, at any
\* position of the list, maps to another digest or to the same digest with
\* another media type.
C13_AnyTagDenies ==
    [][(/\ last'.op = "PushManifest"
        /\ cfg.ImmutableTags
        /\ IsValidRepository(last'.repo)
        /\ digestError(last'.desc.digest, last'.data) = Nil
        /\ \A i \in 1 .. Len(last'.tags) : IsValidTag(last'.tags[i])
        /\ last'.repo \in DOMAIN repos
        /\ \E i \in 1 .. Len(last'.tags) :
              /\ last'.tags[i] \in DOMAIN repos[last'.repo].tags
              /\ LET cur == repos[last'.repo].tags[last'.tags[i]]
                 IN cur.digest # DigestOf(last') \/ cur.mediaType # last'.mediaType) =>
         (last'.err = ErrDenied /\ repos' = repos)]_vars

\* Every tag of every repository maps to a manifest the repository has.
TagsPresent ==
    \A r \in DOMAIN repos : \A t \in DOMAIN repos[r].tags :
        repos[r].tags[t].digest \in DOMAIN repos[r].manifests

\* C14 as stated: in every reachable state every tag maps to a digest that
\* is a key of the manifests of its repository.
C14_TagsPointToManifests == TagsPresent

\* C14, amended: no operation other than the delete of a manifest makes a
\* tag point to an absent manifest; PushManifest stores the manifest it
\* tags in the same step.
C14_PushKeepsTagsOnManifests ==
    [][(last'.op # "DeleteManifest" /\ TagsPresent) => TagsPresent']_vars

C14_Witness ==
    /\ last.op = "PushManifest" /\ last.err = Nil
    /\ last.tags = <<"t1", "t2">>
    /\ TagsPresent
    /\ repos["a"].tags["t1"].digest = FromBytes(last.data)
    /\ repos["a"].tags["t2"].digest = FromBytes(last.data)

\* ------------------------------------------------------------------------
\* PushManifest step by step, under the registry mutex
\* ------------------------------------------------------------------------

\* A mutex that lets every caller in.
muFree_NoLock(fl) == TRUE

\* r.mu.Lock() succeeds when no call holds the mutex.
muFree(fl) == fl.pc = "idle"

\* Lines 586-654: take the mutex, make the repository and run the checks.
\* A call that is rejected, or that returns from the tag loop, returns here
\* and releases the mutex; any other goes on to the writes holding it.
PMBegin(repoName, data, mediaType, params) ==
    LET res == DoPushManifest(cfg, repos, repoName, data, mediaType, params)
        call == [NoCall EXCEPT !.op = "PushManifest", !.caller = "w1", !.repo = repoName,
                               !.data = data, !.mediaType = mediaType,
                               !.tags = params.tags,
                               !.desc = Descriptor("", params.digest, 0),
                               !.err = res.err, !.ret = res.ret]
    IN
    /\ muFree(inflight)
    /\ IF res.stored
       THEN /\ repos' = makeRepo(repos, repoName).repos
            /\ inflight' = [pc |-> "store", call |-> call, i |-> 1,
                            blob |-> res.repos[repoName].manifests[res.ret.digest]]
            /\ last' = last
       ELSE /\ repos' = res.repos
            /\ inflight' = NoInflight
            /\ last' = call
    /\ UNCHANGED <<cfg, heap, writer>>

\* Lines 656-660: repo.manifests[dig] = &blob{...}.
PMStore ==
    /\ inflight.pc = "store"
    /\ repos' = [repos EXCEPT ![inflight.call.repo].manifests =
                    Put(@, inflight.call.ret.digest, inflight.blob)]
    /\ inflight' = [inflight EXCEPT !.pc = "tag"]
    /\ UNCHANGED <<cfg, heap, writer, last>>

\* Lines 661-663, one turn of the loop: repo.tags[tag] = desc.
PMTag ==
    /\ inflight.pc = "tag"
    /\ inflight.i <= Len(inflight.call.tags)
    /\ repos' = [repos EXCEPT ![inflight.call.repo].tags =
                    Put(@, inflight.call.tags[inflight.i], inflight.call.ret)]
    /\ inflight' = [inflight EXCEPT !.i = @ + 1]
    /\ UNCHANGED <<cfg, heap, writer, last>>

\* Line 664, and the deferred r.mu.Unlock().
PMReturn ==
    /\ inflight.pc = "tag"
    /\ inflight.i > Len(inflight.call.tags)
    /\ last' = inflight.call
    /\ inflight' = NoInflight
    /\ UNCHANGED <<cfg, repos, heap, writer>>

InitAtomic ==
    /\ cfg \in [ImmutableTags : BOOLEAN, LaxChildReferences : {FALSE}]
    /\ repos = Empty
    /\ heap = <<>>
    /\ writer = [c \in Callers |-> 0]
    /\ last = NoCall
    /\ scn = NoScript
    /\ slices = NoSlices
    /\ inflight = NoInflight
    /\ funcs = NilFuncs
    /\ net = NoNet
    /\ env = NoEnv
    /\ filt = NoFilt
    /\ ib = NoBuilder

AtomicBegin ==
    /\ \E data \in TagInputs, tags \in {<<>>, <<"t1">>, <<"t1", "t2">>} :
          PMBegin("a", data, "mtA", [digest |-> NoDigest, tags |-> tags])
    /\ UNCHANGED <<scn, slices, funcs, net, env, filt, ib>>

AtomicStore == PMStore /\ UNCHANGED <<scn, slices, funcs, net, env, filt, ib>>

AtomicTag == PMTag /\ UNCHANGED <<scn, slices, funcs, net, env, filt, ib>>

AtomicReturn == PMReturn /\ UNCHANGED <<scn, slices, funcs, net, env, filt, ib>>

\* The calls of another goroutine; each takes the mutex for all it does.
AtomicOtherPushManifest ==
    /\ muFree(inflight)
    /\ \E data \in {<<>>, <<2, 1>>}, tags \in {<<>>, <<"t2">>} :
          PushManifest("a", data, "mtB", [digest |-> NoDigest, tags |-> tags])
    /\ UNCHANGED <<scn, slices, inflight, funcs, net, env, filt, ib>>

AtomicOtherPushBlob ==
    /\ muFree(inflight)
    /\ PushBlob("a", Descriptor("mtA", FromBytes(<<>>), 0), [data |-> <<>>, err |-> FALSE])
    /\ UNCHANGED <<scn, slices, inflight, funcs, net, env, filt, ib>>

NextAtomic ==
    \/ AtomicBegin
    \/ AtomicStore
    \/ AtomicTag
    \/ AtomicReturn
    \/ AtomicOtherPushManifest
    \/ AtomicOtherPushBlob

SpecAtomic == InitAtomic /\ [][NextAtomic]_vars

\* The call that is executing has applied a tag while its manifest is not
\* stored, or has applied some of its tags and not all of them.
PartialPush ==
    /\ inflight.pc # "idle"
    /\ \/ /\ inflight.i > 1
          /\ ~HasManifest(repos, inflight.call.repo, inflight.call.ret.digest)
       \/ /\ inflight.i > 1
          /\ inflight.i <= Len(inflight.call.tags)

\* C15: no operation of another caller runs in a state in which the
\* executing PushManifest has applied a tag without the manifest stored, or
\* only some of its tags; and what the call has written when it returns is
\* what the one-step PushManifest writes.
C15_TagsAtomicWithManifest ==
    [][/\ (inflight' = inflight) => ~PartialPush
       /\ (inflight.pc # "idle" /\ inflight'.pc = "idle") =>
             /\ HasManifest(repos', last'.repo, last'.ret.digest)
             /\ \A i \in 1 .. Len(last'.tags) :
                   repos'[last'.repo].tags[last'.tags[i]] = last'.ret]_vars

C15_Witness ==
    /\ PartialPush
    /\ inflight.call.tags = <<"t1", "t2">>
    /\ "t1" \in DOMAIN repos["a"].tags
    /\ "t2" \notin DOMAIN repos["a"].tags

\* ------------------------------------------------------------------------
\* The bytes PushManifest keeps
\* ------------------------------------------------------------------------
\* slices.bytes[s] is the content of the array behind the caller's slice
\* s; slices.sharedBy[s] is the set of stored manifests (repository,
\* digest) whose data field is a slice of that same array.  Array 0 stands
\* for an array no caller holds.

\* A clone that hands back the caller's array.
Clone_Alias(s) == s

\* slices.Clone(data): a slice of a new array with the same content.
Clone(s) == 0

\* PushManifest called with the caller's slice s as data.
PushManifestSlice(repoName, s, mediaType, params) ==
    LET res == DoPushManifest(cfg, repos, repoName, slices.bytes[s], mediaType, params)
        arr == Clone(s)
        key == <<repoName, res.ret.digest>>
    IN
    /\ repos' = res.repos
    /\ slices' = IF res.stored
                 THEN [slices EXCEPT !.sharedBy =
                          [x \in DOMAIN @ |-> (@[x] \ {key}) \cup
                                              (IF x = arr THEN {key} ELSE {})]]
                 ELSE slices
    /\ last' = [NoCall EXCEPT !.op = "PushManifest", !.repo = repoName,
                              !.data = slices.bytes[s], !.mediaType = mediaType,
                              !.tags = params.tags, !.h = s,
                              !.desc = Descriptor("", params.digest, 0),
                              !.err = res.err, !.ret = res.ret]
    /\ UNCHANGED <<cfg, heap, writer>>

\* The caller writes v to element i of its slice s: every slice of the
\* same array shows the new byte.
MutateSlice(s, i, v) ==
    /\ slices' = [slices EXCEPT !.bytes[s][i] = v]
    /\ repos' = [r \in DOMAIN repos |->
                   [repos[r] EXCEPT !.manifests =
                      [d \in DOMAIN @ |->
                          IF <<r, d>> \in slices.sharedBy[s]
                          THEN [@[d] EXCEPT !.data[i] = v]
                          ELSE @[d]]]]
    /\ last' = [NoCall EXCEPT !.op = "MutateSlice", !.h = s, !.offset = i,
                              !.data = slices'.bytes[s]]
    /\ UNCHANGED <<cfg, heap, writer>>

InitClone ==
    /\ cfg = [ImmutableTags |-> FALSE, LaxChildReferences |-> FALSE]
    /\ repos = Empty
    /\ heap = <<>>
    /\ writer = [c \in Callers |-> 0]
    /\ last = NoCall
    /\ scn = NoScript
    /\ slices = [bytes |-> <<<<2, 1>>>>, sharedBy |-> <<{}>>]
    /\ inflight = NoInflight
    /\ funcs = NilFuncs
    /\ net = NoNet
    /\ env = NoEnv
    /\ filt = NoFilt
    /\ ib = NoBuilder

ClonePush ==
    /\ \E s \in DOMAIN slices.bytes, tags \in {<<>>, <<"t1">>}, mt \in {"mtA", "mtB"} :
          PushManifestSlice("a", s, mt, [digest |-> NoDigest, tags |-> tags])
    /\ UNCHANGED <<scn, inflight, funcs, net, env, filt, ib>>

CloneMutate ==
    /\ \E s \in DOMAIN slices.bytes : \E i \in 1 .. Len(slices.bytes[s]), v \in 1 .. 2 :
          MutateSlice(s, i, v)
    /\ UNCHANGED <<scn, inflight, funcs, net, env, filt, ib>>

NextClone ==
    \/ ClonePush
    \/ CloneMutate

SpecClone == InitClone /\ [][NextClone]_vars

\* C16: the bytes stored for a manifest are the bytes that were pushed: a
\* successful PushManifest leaves exactly its data argument under the
\* digest it returns, and whatever the caller writes to its slice later,
\* the stored bytes still hash to the digest they are stored under.
C16_StoredBytesArePushedBytes ==
    /\ (last.op = "PushManifest" /\ last.err = Nil) =>
          /\ HasManifest(repos, last.repo, last.ret.digest)
          /\ repos[last.repo].manifests[last.ret.digest].data = last.data
    /\ \A r \in DOMAIN repos : \A d \in DOMAIN repos[r].manifests :
          FromBytes(repos[r].manifests[d].data) = d

C16_Witness ==
    /\ last.op = "MutateSlice" /\ last.h = 1
    /\ slices.bytes[1] = <<2, 2>>
    /\ HasManifest(repos, "a", FromBytes(<<2, 1>>))
    /\ repos["a"].manifests[FromBytes(<<2, 1>>)].data = <<2, 1>>
    /\ ~HasManifest(repos, "a", FromBytes(<<2, 2>>))

\* ------------------------------------------------------------------------
\* MountBlob
\* ------------------------------------------------------------------------

\* r.blobForDigest(repoName, dig): the blob stored under dig in an
\* existing repository.
blobForDigest(rs, repoName, dig) ==
    IF ~IsValidRepository(repoName) THEN [err |-> ErrNameInvalid, b |-> <<>>]
    ELSE IF repoName \notin DOMAIN rs THEN [err |-> ErrNameUnknown, b |-> <<>>]
    ELSE IF dig \notin DOMAIN rs[repoName].blobs THEN [err |-> ErrBlobUnknown, b |-> <<>>]
    ELSE [err |-> Nil, b |-> rs[repoName].blobs[dig]]

\* b.descriptor(): media type, canonical digest and size of a stored blob.
blobDescriptor(b) == Descriptor(b.mediaType, FromBytes(b.data), Len(b.data))

\* A mount that records the blob as plain bytes.
mountStore_Octet(repo, dig, b) ==
    [repo EXCEPT !.blobs = Put(@, dig, [b EXCEPT !.mediaType = OctetStream])]

\* rto.blobs[dig] = b
mountStore(repo, dig, b) == [repo EXCEPT !.blobs = Put(@, dig, b)]

DoMountBlob(rs, fromRepo, toRepo, dig) ==
    LET mk == makeRepo(rs, toRepo) IN
    IF mk.err # Nil THEN [err |-> mk.err, ret |-> ZeroDescriptor, repos |-> rs]
    ELSE
    LET got == blobForDigest(mk.repos, fromRepo, dig) IN
    IF got.err # Nil THEN [err |-> got.err, ret |-> ZeroDescriptor, repos |-> mk.repos]
    ELSE [err |-> Nil, ret |-> blobDescriptor(got.b),
          repos |-> [mk.repos EXCEPT ![toRepo] = mountStore(@, dig, got.b)]]

MountBlob(fromRepo, toRepo, dig) ==
    LET res == DoMountBlob(repos, fromRepo, toRepo, dig) IN
    /\ repos' = res.repos
    /\ last' = [NoCall EXCEPT !.op = "MountBlob", !.from = fromRepo, !.repo = toRepo,
                              !.desc = Descriptor("", dig, 0),
                              !.err = res.err, !.ret = res.ret]
    /\ UNCHANGED <<cfg, heap, writer>>

MountInputs == {<<>>, <<0>>}

MountPushBlob ==
    /\ \E data \in MountInputs, mt \in {"mtA", "mtB"} :
          PushBlob("a", Descriptor(mt, FromBytes(data), Len(data)),
                   [data |-> data, err |-> FALSE])
    /\ UNCHANGED <<scn, slices, inflight, funcs, net, env, filt, ib>>

MountMount ==
    /\ \E fromRepo \in {"a", "b"}, toRepo \in {"a", "b", "B!"}, data \in MountInputs :
          MountBlob(fromRepo, toRepo, FromBytes(data))
    /\ UNCHANGED <<scn, slices, inflight, funcs, net, env, filt, ib>>

MountStart ==
    /\ PushBlobChunked("w1", "b")
    /\ UNCHANGED <<scn, slices, inflight, funcs, net, env, filt, ib>>

MountCommit ==
    /\ writer["w1"] # 0
    /\ Commit("w1", FromBytes(heap[writer["w1"]].buf))
    /\ UNCHANGED <<scn, slices, inflight, funcs, net, env, filt, ib>>

NextMount ==
    \/ MountPushBlob
    \/ MountMount
    \/ MountStart
    \/ MountCommit

SpecMount == Init /\ [][NextMount]_vars

\* C17: no successful PushBlob, Commit or MountBlob changes the bytes or
\* the media type of a blob a repository already holds.
C17_BlobImmutable ==
    [][(last'.op \in {"PushBlob", "Commit", "MountBlob"} /\ last'.err = Nil) =>
         \A r \in DOMAIN repos : \A d \in DOMAIN repos[r].blobs :
             /\ d \in DOMAIN repos'[r].blobs
             /\ repos'[r].blobs[d].data = repos[r].blobs[d].data
             /\ repos'[r].blobs[d].mediaType = repos[r].blobs[d].mediaType]_vars

\* C18: MountBlob(from, to, d) into a well-formed repository name, with d
\* among the blobs of from, succeeds, leaves under d in to the blob from
\* has, returns its media type, digest and size, and leaves from as it
\* was; with d not among the blobs of from it fails and the blobs of to
\* are what they were.
C18_MountBlob ==
    [][last'.op = "MountBlob" =>
         LET fromRepo == last'.from
             toRepo == last'.repo
             d == last'.desc.digest
         IN /\ (HasBlob(repos, fromRepo, d) /\ IsValidRepository(toRepo)) =>
                  LET b == repos[fromRepo].blobs[d] IN
                  /\ last'.err = Nil
                  /\ HasBlob(repos', toRepo, d)
                  /\ repos'[toRepo].blobs[d] = b
                  /\ last'.ret = Descriptor(b.mediaType, d, Len(b.data))
                  /\ (fromRepo # toRepo) => repos'[fromRepo] = repos[fromRepo]
                  /\ (fromRepo = toRepo) => repos' = repos
            /\ ~HasBlob(repos, fromRepo, d) =>
                  /\ last'.err # Nil
                  /\ (toRepo \in DOMAIN repos') =>
                        repos'[toRepo].blobs =
                           (IF toRepo \in DOMAIN repos THEN repos[toRepo].blobs ELSE Empty)]_vars

C18_Witness ==
    /\ last.op = "MountBlob" /\ last.err = Nil
    /\ last.from = "b" /\ last.repo = "a"
    /\ HasBlob(repos, "a", last.desc.digest)
    /\ HasBlob(repos, "b", last.desc.digest)
    /\ repos["a"].blobs[last.desc.digest].mediaType = OctetStream

\* C19: a PushBlob, PushManifest, MountBlob or PushBlobChunkedResume that
\* returns an error leaves the repositories, the set of repositories
\* included, and the upload sessions as they were.
C19_FailedCallChangesNothing ==
    [][(/\ last'.op \in {"PushBlob", "PushManifest", "MountBlob", "PushBlobChunkedResume"}
        /\ last'.err # Nil) => (repos' = repos /\ heap' = heap)]_vars

\* ------------------------------------------------------------------------
\* Funcs: Interface as a table of functions
\* ------------------------------------------------------------------------
ErrUnsupported == "UNSUPPORTED"

\* The methods of Interface; a field of Funcs is named after its method.
FuncsMethods ==
    {"GetBlob", "GetBlobRange", "GetManifest", "GetTag", "ResolveBlob",
     "ResolveManifest", "ResolveTag", "PushBlob", "PushBlobChunked",
     "PushBlobChunkedResume", "MountBlob", "PushManifest", "DeleteBlob",
     "DeleteManifest", "DeleteTag", "Repositories", "Tags", "Referrers"}

IteratorMethods == {"Repositories", "Tags", "Referrers"}

\* The field a method tests against nil before it calls.
guardField(m) == IF m = "PushBlobChunkedResume" THEN "PushBlobChunked" ELSE m

\* The field a method calls.
callField(m) == m

\* The method name a method hands to newError.
errorName(m) == IF m = "PushBlobChunkedResume" THEN "PushBlobChunked" ELSE m

\* f.newError(ctx, methodName, repo): the error of the NewError hook when
\* there is one, else methodName wrapped around ErrUnsupported with %w.
newError(f, methodName) ==
    IF ~f.isNil /\ f.NewError THEN [hook |-> TRUE, code |-> "hook", method |-> methodName]
    ELSE [hook |-> FALSE, code |-> WrapW(ErrUnsupported), method |-> methodName]

\* A sequence that yields nothing.
ErrorSeq_NoItems(err) == <<>>

\* ErrorSeq(err): the sequence that yields (zero, err) once.
ErrorSeq(err) == <<[value |-> "zero", err |-> err]>>

\* SliceSeq(s): the sequence that yields every element of s, in order,
\* each with a nil error.
SliceSeq(s) == [i \in 1 .. Len(s) |-> [value |-> s[i], err |-> Nil]]

\* What a call of method m on f does: it calls a field (a nil field makes
\* the call panic), or returns a zero result with an error.
FuncsMethod(f, m) ==
    IF ~f.isNil /\ guardField(m) \in f.set
    THEN [called |-> callField(m), panic |-> callField(m) \notin f.set,
          ret |-> "result of the field", err |-> Nil]
    ELSE [called |-> "", panic |-> FALSE,
          ret |-> IF m \in IteratorMethods THEN ErrorSeq(newError(f, errorName(m)))
                  ELSE "zero",
          err |-> IF m \in IteratorMethods THEN Nil ELSE newError(f, errorName(m))]

FuncsCall ==
    /\ \E m \in FuncsMethods :
          last' = [op |-> "Funcs", method |-> m, out |-> FuncsMethod(funcs, m)]
    /\ UNCHANGED <<cfg, repos, heap, writer, scn, slices, inflight, funcs, net, env, filt, ib>>

\* for x, err := range ErrorSeq(err): what the loop is handed.
SeqError ==
    /\ \E err \in {ErrUnsupported, ErrBlobUnknown, Uncoded} :
          last' = [op |-> "ErrorSeq", arg |-> err, out |-> ErrorSeq(err)]
    /\ UNCHANGED <<cfg, repos, heap, writer, scn, slices, inflight, funcs, net, env, filt, ib>>

\* for x, err := range SliceSeq(s): what the loop is handed.
SeqSlice ==
    /\ \E s \in {<<>>, <<3, 1, 4>>, <<1, 1>>} :
          last' = [op |-> "SliceSeq", arg |-> s, out |-> SliceSeq(s)]
    /\ UNCHANGED <<cfg, repos, heap, writer, scn, slices, inflight, funcs, net, env, filt, ib>>

\* The fields that are set in some of the tables tried.
FuncsFields == {"GetBlob", "PushBlobChunked", "PushBlobChunkedResume", "Tags"}

InitFuncs ==
    /\ cfg = [ImmutableTags |-> FALSE, LaxChildReferences |-> FALSE]
    /\ repos = Empty
    /\ heap = <<>>
    /\ writer = [c \in Callers |-> 0]
    /\ last = NoCall
    /\ scn = NoScript
    /\ slices = NoSlices
    /\ inflight = NoInflight
    /\ \/ funcs = NilFuncs
       \/ \E set \in SUBSET FuncsFields, hook \in BOOLEAN :
             funcs = [isNil |-> FALSE, set |-> set, NewError |-> hook]
    /\ net = NoNet
    /\ env = NoEnv
    /\ filt = NoFilt
    /\ ib = NoBuilder

NextFuncs ==
    \/ FuncsCall
    \/ SeqError
    \/ SeqSlice

SpecFuncs == InitFuncs /\ [][NextFuncs]_vars

\* The error a method without a function reports: UNSUPPORTED, or the
\* error of the NewError hook.
IsUnsupported(f, e) ==
    IF ~f.isNil /\ f.NewError THEN e.hook ELSE (~e.hook /\ e.code = ErrUnsupported)

\* C20: a method whose field is nil, or that is called on a nil *Funcs,
\* does not panic and returns a zero result with an error that carries
\* UNSUPPORTED (or the error of the NewError hook); an iterator method
\* returns the sequence of that one error.
C20_NilFieldIsUnsupported ==
    (last.op = "Funcs" /\ (funcs.isNil \/ last.method \notin funcs.set)) =>
        /\ ~last.out.panic
        /\ last.out.called = ""
        /\ IF last.method \in IteratorMethods
           THEN /\ Len(last.out.ret) = 1
                /\ last.out.ret[1].value = "zero"
                /\ IsUnsupported(funcs, last.out.ret[1].err)
           ELSE /\ last.out.ret = "zero"
                /\ IsUnsupported(funcs, last.out.err)

\* C21: a method whose own field is set calls that field, once, and
\* returns what it returns, whatever the other fields are.
C21_CallsOwnField ==
    (last.op = "Funcs" /\ ~funcs.isNil /\ last.method \in funcs.set) =>
        /\ last.out.called = last.method
        /\ ~last.out.panic
        /\ last.out.ret = "result of the field"

MaxWrap == 2

NoDetail == ""
NoCoded == [code |-> "", detail |-> NoDetail]

\* The coded errors and the plain error the tests render.
ErrorBases ==
    { NoCoded,
      [code |-> ErrBlobUnknown, detail |-> NoDetail],
      [code |-> ErrNameUnknown, detail |-> NoDetail],
      [code |-> "SOME_CODE", detail |-> NoDetail],
      [code |-> "SOME_CODE", detail |-> "{foo:true}"] }

ErrorLayers ==
    { [kind |-> "w", status |-> 0],
      [kind |-> "v", status |-> 0],
      [kind |-> "http", status |-> 401],
      [kind |-> "http", status |-> 418] }

LayerSeqs == UNION { [1 .. n -> ErrorLayers] : n \in 0 .. MaxWrap }

ErrorInputs == { [base |-> b, layers |-> l] : b \in ErrorBases, l \in LayerSeqs }

\* The default HTTP status of the codes that have one.
errorStatuses ==
    [c \in { ErrBlobUnknown, ErrNameUnknown, ErrDigestInvalid, ErrNameInvalid,
             ErrManifestInvalid, ErrDenied, ErrUnsupported, ErrRangeInvalid,
             ErrBlobUploadInvalid, "UNAUTHORIZED", "UNKNOWN" } |->
        CASE c \in {ErrBlobUnknown, ErrNameUnknown} -> 404
          [] c \in {ErrDigestInvalid, ErrNameInvalid, ErrManifestInvalid, ErrUnsupported} -> 400
          [] c \in {ErrRangeInvalid, ErrBlobUploadInvalid} -> 416
          [] c = ErrDenied -> 403
          [] c = "UNAUTHORIZED" -> 401
          [] OTHER -> 500]

\* A layer has an Unwrap method unless it was formatted with %v.
Unwraps(layer) == layer.kind # "v"

RECURSIVE AsCoded(_, _)
\* errors.As(err, &ociErr): the first coded error of the chain.
AsCoded(layers, base) ==
    IF layers = <<>> THEN base
    ELSE IF Unwraps(Head(layers)) THEN AsCoded(Tail(layers), base)
    ELSE NoCoded

RECURSIVE AsHTTP(_)
\* errors.As(err, &httpErr): the status of the first HTTP wrapper of the
\* chain, 0 when there is none.
AsHTTP(layers) ==
    IF layers = <<>> THEN 0
    ELSE IF Head(layers).kind = "http" THEN Head(layers).status
    ELSE IF Unwraps(Head(layers)) THEN AsHTTP(Tail(layers))
    ELSE 0

\* errors.Is(err, NewError("", code, nil)): coded errors compare by code.
IsCode(e, code) == code # "" /\ AsCoded(e.layers, e.base).code = code

\* The status of the HTTP wrapper, whatever the code is.
marshalStatus_WrapperFirst(code, httpStatus) ==
    IF httpStatus # 0 THEN httpStatus
    ELSE IF code \in DOMAIN errorStatuses THEN errorStatuses[code]
    ELSE 500

\* The status MarshalError chooses for a rendered code and the status of
\* the chain's HTTP wrapper (0: none).
marshalStatus(code, httpStatus) ==
    IF code \in DOMAIN errorStatuses THEN errorStatuses[code]
    ELSE IF httpStatus # 0 THEN httpStatus
    ELSE 500

\* A wire entry that leaves the detail out.
wireEntry_NoDetail(code, detail) == << <<"code", code>> >>

\* One entry of the "errors" array: the members of the JSON object in
\* order; "detail" is left out when there is none.
wireEntry(code, detail) ==
    << <<"code", code>> >> \o
    (IF detail = NoDetail THEN <<>> ELSE << <<"detail", detail>> >>)

\* MarshalError(err): the body {"errors":[entry]} and the HTTP status.
MarshalError(e) ==
    LET c    == AsCoded(e.layers, e.base)
        code == IF c.code = "" THEN "UNKNOWN" ELSE c.code
    IN  [ body   |-> << wireEntry(code, c.detail) >>,
          status |-> marshalStatus(code, AsHTTP(e.layers)) ]

\* The server's error response: the status and body of MarshalError.
WriteError(e) ==
    [ status      |-> MarshalError(e).status,
      contentType |-> "application/json",
      body        |-> MarshalError(e).body ]

\* The value of member key of a decoded JSON object, "" when absent.
member(obj, key) ==
    IF \E i \in 1 .. Len(obj) : obj[i][1] = key
    THEN obj[CHOOSE i \in 1 .. Len(obj) : obj[i][1] = key][2]
    ELSE ""

\* json.Unmarshal(body, &WireErrors{}).
UnmarshalWireErrors(body) ==
    [ i \in 1 .. Len(body) |->
        [Code_ |-> member(body[i], "code"), Detail_ |-> member(body[i], "detail")] ]

\* errors.Is(errs, NewError("", code, nil)) for a *WireErrors.
WireErrorsIs(errs, code) == \E i \in 1 .. Len(errs) : errs[i].Code_ = code

ErrFrame == UNCHANGED <<cfg, repos, heap, writer, scn, slices, inflight, funcs, net, env, filt, ib>>

\* body, status := MarshalError(err)
ErrMarshal ==
    /\ \E e \in ErrorInputs :
          last' = [op |-> "MarshalError", err |-> e, status |-> MarshalError(e).status,
                   body |-> MarshalError(e).body]
    /\ ErrFrame

\* A handler returns err and the server writes the error response.
ErrServe ==
    /\ \E e \in ErrorInputs :
          last' = [op |-> "WriteError", err |-> e, status |-> WriteError(e).status,
                   body |-> WriteError(e).body]
    /\ ErrFrame

\* TestError: marshal, unmarshal into WireErrors, errors.Is.
ErrRoundTrip ==
    /\ \E e \in ErrorInputs :
          LET back == UnmarshalWireErrors(MarshalError(e).body)
          IN  last' = [op |-> "RoundTrip", err |-> e,
                       is |-> IsCode(e, e.base.code),
                       back |-> back,
                       backIs |-> WireErrorsIs(back, e.base.code)]
    /\ ErrFrame

InitErrors ==
    /\ Init
    /\ funcs = NilFuncs
    /\ net = NoNet
    /\ env = NoEnv
    /\ filt = NoFilt
    /\ ib = NoBuilder

NextErrors ==
    \/ ErrMarshal
    \/ ErrServe
    \/ ErrRoundTrip

SpecErrors == InitErrors /\ [][NextErrors]_vars

\* The layers of e that are reachable by unwrapping: those above the
\* first %v layer.
Reachable(e) ==
    { i \in 1 .. Len(e.layers) : \A j \in 1 .. i : e.layers[j].kind # "v" }

\* The wrappers of e that errors.As can find.
Wrappers(e) == { i \in Reachable(e) : e.layers[i].kind = "http" }

\* The code e is rendered with.
RenderedCode(e) ==
    IF Reachable(e) = 1 .. Len(e.layers) /\ e.base.code # "" THEN e.base.code ELSE "UNKNOWN"

\* C23: the status of a rendered error is the default status of its code
\* when the code has one, whatever the HTTP wrapper says; otherwise the
\* status of the (outermost) HTTP wrapper; otherwise 500.
C23_RenderedStatus ==
    last.op \in {"MarshalError", "WriteError"} =>
        LET e == last.err
            code == RenderedCode(e)
        IN  /\ code \in DOMAIN errorStatuses => last.status = errorStatuses[code]
            /\ (code \notin DOMAIN errorStatuses /\ Wrappers(e) # {}) =>
                  last.status = e.layers[CHOOSE i \in Wrappers(e) : \A j \in Wrappers(e) : i <= j].status
            /\ (code \notin DOMAIN errorStatuses /\ Wrappers(e) = {}) => last.status = 500
            /\ (e.base.code = "" /\ Wrappers(e) = {}) => last.status = 500

C23_Witness ==
    /\ last.op = "WriteError"
    /\ last.err.base.code = ErrNameUnknown
    /\ Len(last.err.layers) = 1 /\ last.err.layers[1].kind = "http"
    /\ last.err.layers[1].status = 401
    /\ last.status = 404

\* C24: a coded error under context wrapping and HTTP wrappers still
\* matches its code, and the error unmarshalled from its wire form matches
\* the code and has the same detail.
C24_ErrorIdentity ==
    (/\ last.op = "RoundTrip"
     /\ last.err.base.code # ""
     /\ \A i \in 1 .. Len(last.err.layers) : last.err.layers[i].kind \in {"w", "http"}) =>
        /\ last.is
        /\ last.backIs
        /\ Len(last.back) = 1
        /\ last.back[1].Detail_ = last.err.base.detail

C24_Witness ==
    /\ last.op = "RoundTrip"
    /\ last.err.base = [code |-> "SOME_CODE", detail |-> "{foo:true}"]
    /\ Len(last.err.layers) = 2
    /\ last.err.layers[1].kind = "http" /\ last.err.layers[2].kind = "w"
    /\ last.backIs /\ last.back[1].Detail_ = "{foo:true}"

\* ------------------------------------------------------------------
\* The HTTP client: argument validation, the requests of each interface
\* operation and the scope each request carries.

GoodRepo == "foo/bar"
BadRepo == "Invalid--Repo"
GoodDigest == "sha256:ff"
BadDigestString == "bad-digest"
GoodTag == "sometag"
BadTag == "bad-Tag!"

isValidRepository(name) == name \in {GoodRepo, "x/y", "z/w"}
isValidDigest(d) == d = GoodDigest
isValidTag(t) == t = GoodTag

ReadOps ==
    { "GetBlob", "GetBlobRange", "GetManifest", "GetTag", "ResolveBlob",
      "ResolveManifest", "ResolveTag", "Tags", "Referrers" }
WriteOps ==
    { "PushBlob", "PushBlobChunked", "PushManifest", "DeleteBlob",
      "DeleteManifest", "DeleteTag" }
ClientOps == ReadOps \cup WriteOps \cup {"MountBlob", "Repositories"}

\* The operations that take a repository name, a digest, a tag.
RepoOps == ClientOps \ {"Repositories"}
DigestOps ==
    { "GetBlob", "GetBlobRange", "GetManifest", "ResolveBlob", "ResolveManifest",
      "PushBlob", "MountBlob", "DeleteBlob", "DeleteManifest", "Referrers" }
TagOps == { "GetTag", "ResolveTag", "DeleteTag", "PushManifest" }

\* The request sequences an operation can issue, by request kind.  A
\* chunked upload is the whole session: start, PATCH, an optional query
\* of the upload's state on resume, PATCH, commit.  A listing is one or
\* two pages; Referrers may fall back to the referrers tag.
Programs(op) ==
    CASE op \in {"GetBlob", "GetBlobRange"} -> { <<"ReqBlobGet">> }
      [] op \in {"GetManifest", "GetTag"} -> { <<"ReqManifestGet">> }
      [] op = "ResolveBlob" -> { <<"ReqBlobHead">> }
      [] op \in {"ResolveManifest", "ResolveTag"} -> { <<"ReqManifestHead">> }
      [] op = "PushBlob" ->
            { <<"ReqBlobUploadBlob">>, <<"ReqBlobUploadBlob", "ReqBlobCompleteUpload">> }
      [] op = "PushBlobChunked" ->
            { <<"ReqBlobStartUpload", "ReqBlobUploadChunk", "ReqBlobUploadChunk",
                "ReqBlobCompleteUpload">>,
              <<"ReqBlobStartUpload", "ReqBlobUploadChunk", "ReqBlobUploadInfo",
                "ReqBlobUploadChunk", "ReqBlobCompleteUpload">> }
      [] op = "MountBlob" -> { <<"ReqBlobMount">> }
      [] op = "PushManifest" -> { <<"ReqManifestPut">> }
      [] op = "DeleteBlob" -> { <<"ReqBlobDelete">> }
      [] op \in {"DeleteManifest", "DeleteTag"} -> { <<"ReqManifestDelete">> }
      [] op = "Repositories" -> { <<"ReqCatalogList">>, <<"ReqCatalogList", "ReqCatalogList">> }
      [] op = "Tags" -> { <<"ReqTagsList">>, <<"ReqTagsList", "ReqTagsList">> }
      [] op = "Referrers" -> { <<"ReqReferrersList">>, <<"ReqReferrersList", "ReqManifestGet">> }

\* A validation of the repository names only.
validateArgs_NamesOnly(op, a) ==
    IF (op \in RepoOps /\ ~isValidRepository(a.repo))
       \/ (op = "MountBlob" /\ ~isValidRepository(a.from))
      THEN [prefix |-> "invalid OCI request: ", code |-> ErrNameInvalid]
    ELSE [prefix |-> "", code |-> Nil]

\* The validation of the arguments of an operation: the local error,
\* which is wrapped with "invalid OCI request: ", or the nil error.
validateArgs(op, a) ==
    IF op \in RepoOps /\ ~isValidRepository(a.repo)
      THEN [prefix |-> "invalid OCI request: ", code |-> ErrNameInvalid]
    ELSE IF op = "MountBlob" /\ ~isValidRepository(a.from)
      THEN [prefix |-> "invalid OCI request: ", code |-> ErrNameInvalid]
    ELSE IF op \in DigestOps /\ ~isValidDigest(a.dig)
      THEN [prefix |-> "invalid OCI request: ", code |-> ErrDigestInvalid]
    ELSE IF op \in TagOps /\ ~isValidTag(a.tag)
      THEN [prefix |-> "invalid OCI request: ", code |-> Uncoded]
    ELSE [prefix |-> "", code |-> Nil]

\* Every request of an upload needs only pull.
scopeForRequest_InfoPull(kind, a) ==
    IF kind = "ReqBlobUploadInfo"
    THEN { [type |-> "repository", name |-> a.repo, action |-> "pull"] }
    ELSE IF kind = "ReqCatalogList"
    THEN { [type |-> "registry", name |-> "catalog", action |-> "*"] }
    ELSE IF kind = "ReqBlobMount"
    THEN { [type |-> "repository", name |-> a.from, action |-> "pull"],
           [type |-> "repository", name |-> a.repo, action |-> "push"] }
    ELSE IF kind \in {"ReqBlobGet", "ReqBlobHead", "ReqManifestGet", "ReqManifestHead",
                      "ReqTagsList", "ReqReferrersList"}
    THEN { [type |-> "repository", name |-> a.repo, action |-> "pull"] }
    ELSE { [type |-> "repository", name |-> a.repo, action |-> "push"] }

\* The scope the client attaches to the context of a request of the
\* given kind.
scopeForRequest(kind, a) ==
    IF kind = "ReqCatalogList"
    THEN { [type |-> "registry", name |-> "catalog", action |-> "*"] }
    ELSE IF kind = "ReqBlobMount"
    THEN { [type |-> "repository", name |-> a.from, action |-> "pull"],
           [type |-> "repository", name |-> a.repo, action |-> "push"] }
    ELSE IF kind \in {"ReqBlobGet", "ReqBlobHead", "ReqManifestGet", "ReqManifestHead",
                      "ReqTagsList", "ReqReferrersList"}
    THEN { [type |-> "repository", name |-> a.repo, action |-> "pull"] }
    ELSE { [type |-> "repository", name |-> a.repo, action |-> "push"] }

\* The resources of the scopes in use, in the order of their string form.
SortedResources ==
    << <<"registry", "catalog">>, <<"repository", BadRepo>>, <<"repository", GoodRepo>>,
       <<"repository", "x/y">>, <<"repository", "z/w">> >>
SortedActions == <<"*", "pull", "push">>

RECURSIVE canonicalFrom(_, _)
\* Scope.Canonical().String(): one term per resource in sorted order,
\* with the actions of the resource merged and sorted.
canonicalFrom(scope, i) ==
    IF i > Len(SortedResources) THEN <<>>
    ELSE LET r    == SortedResources[i]
             acts == { s.action : s \in { x \in scope : x.type = r[1] /\ x.name = r[2] } }
         IN  (IF acts = {} THEN <<>>
              ELSE << <<r[1], r[2], SelectSeq(SortedActions, LAMBDA x : x \in acts)>> >>)
             \o canonicalFrom(scope, i + 1)

Canonical(scope) == canonicalFrom(scope, 1)

NetFrame == UNCHANGED <<cfg, repos, heap, writer, scn, slices, inflight, funcs, env, filt, ib>>

ClientArgs ==
    { [repo |-> r, from |-> "x/y", dig |-> d, tag |-> t] :
        r \in {GoodRepo, BadRepo}, d \in {GoodDigest, BadDigestString}, t \in {GoodTag, BadTag} }
    \cup { [repo |-> "z/w", from |-> f, dig |-> GoodDigest, tag |-> GoodTag] : f \in {"x/y", BadRepo} }

\* An interface operation is called: its arguments are validated; when
\* they are valid the requests of the operation are still to be issued.
ClientBegin ==
    /\ net.pc \in {"idle", "done"}
    /\ \E op \in ClientOps, a \in ClientArgs : \E prog \in Programs(op) :
          /\ (a.repo = "z/w") = (op = "MountBlob")
          /\ LET err == validateArgs(op, a)
             IN  net' = [pc   |-> IF err.code = Nil THEN "running" ELSE "done",
                         op   |-> op, args |-> a, err |-> err,
                         todo |-> IF err.code = Nil THEN prog ELSE <<>>,
                         sent |-> <<>>]
    /\ last' = NoCall
    /\ NetFrame

\* The next request of the operation is built, its required scope is
\* attached to its context, and it is handed to the transport.
ClientSend ==
    /\ net.pc = "running"
    /\ net.todo # <<>>
    /\ net' = [net EXCEPT
                 !.sent = Append(@, [kind  |-> Head(net.todo),
                                     scope |-> Canonical(scopeForRequest(Head(net.todo), net.args))]),
                 !.todo = Tail(@)]
    /\ UNCHANGED last
    /\ NetFrame

\* The operation returns.
ClientReturn ==
    /\ net.pc = "running"
    /\ net.todo = <<>>
    /\ net' = [net EXCEPT !.pc = "done"]
    /\ UNCHANGED last
    /\ NetFrame

\* The characters of the digests tried; the ones a tag may contain.
DigestChars == {"a", "S", "9", ".", "_", "-", "+", "="}
TagChars == {"a", "S", "9", ".", "_", "-"}

\* The string of n characters c.
Rep(c, n) == [i \in 1 .. n |-> c]

\* The lengths the two components of a referrers tag are cut to.
algorithmMaxLen == 32
encodedMaxLen == 64

\* The characters that cannot be in a tag become "-".
cleanTag(str) == [i \in 1 .. Len(str) |-> IF str[i] \in TagChars THEN str[i] ELSE "-"]

truncate(str, n) == IF Len(str) > n THEN SubSeq(str, 1, n) ELSE str

\* A referrers tag whose components are both cut to the encoded length.
referrersTag_SameLen(d) ==
    truncate(cleanTag(d.alg), encodedMaxLen) \o <<"-">> \o truncate(cleanTag(d.enc), encodedMaxLen)

\* referrersTag(digest): the tag under which the referrers of the digest
\* are listed when the registry has no referrers API.
referrersTag(d) ==
    truncate(cleanTag(d.alg), algorithmMaxLen) \o <<"-">> \o truncate(cleanTag(d.enc), encodedMaxLen)

\* The digests of referrersTagTests, and digests around the two limits.
TagDigests ==
    { [alg |-> a, enc |-> e] :
        a \in { <<"S", "a", "9">>, <<"a", "+", "a">>,
                Rep("a", algorithmMaxLen), Rep("a", algorithmMaxLen) \o <<"+">>,
                Rep("+", encodedMaxLen), Rep("a", encodedMaxLen + 1),
                Rep("a", 30) \o <<"+", "S", "9", "a", "a">> },
        e \in { Rep("a", encodedMaxLen), Rep("a", 2 * encodedMaxLen),
                <<"a", "=", "S">>, Rep("a", encodedMaxLen - 1) \o <<"=", "=">> } }

\* tag := referrersTag(digest)
ClientReferrersTag ==
    /\ \E d \in TagDigests :
          last' = [op |-> "referrersTag", digest |-> d, tag |-> referrersTag(d)]
    /\ UNCHANGED net
    /\ NetFrame

\* The subject of TestReferrersFallback, a canonical digest, and the tag
\* the test pushes the index to: the digest with ":" replaced by "-".
SubjectDigest == [alg |-> <<"S", "a", "9">>, enc |-> Rep("a", encodedMaxLen)]
replaceColon(d) == d.alg \o <<"-">> \o d.enc

\* The descriptors of the manifests that refer to the subject.
ReferrerDesc(n, at) == [digest |-> n, artifactType |-> at]

\* The manifests fields of the indexes tried.
ReferrerIndexes ==
    { <<>>,
      << ReferrerDesc(0, "referrer/0"), ReferrerDesc(1, "referrer/1"),
         ReferrerDesc(2, "referrer/2") >>,
      << ReferrerDesc(2, "referrer/2"), ReferrerDesc(0, "referrer/0"),
         ReferrerDesc(3, "referrer/2") >> }

ArtifactTypeFilters == {"", "referrer/2", "referrer/9"}

\* The answers of the referrers endpoint: the API answers with the
\* referrers, having applied the filter or not, or it answers 404, with
\* or without the OCI-Filters-Applied header.
ReferrersAnswers ==
    { [status |-> st, filtersApplied |-> fa] : st \in {200, 404}, fa \in BOOLEAN }

\* No filtering by the client.
filterManifests_None(manifests, artifactType) == manifests

\* The descriptors with the given artifact type; all of them when no
\* artifact type is asked for.
filterManifests(manifests, artifactType) ==
    IF artifactType = "" THEN manifests
    ELSE SelectSeq(manifests, LAMBDA d : d.artifactType = artifactType)

\* The referrers listing of the server for an answer of status 200.
apiListing(manifests, artifactType, filtersApplied) ==
    IF filtersApplied THEN filterManifests(manifests, artifactType) ELSE manifests

\* client.Referrers(repo, digest, artifactType) against a server that has
\* the index with the given manifests at the referrers tag of the digest:
\* the requests issued and the sequence returned.  The referrers endpoint is asked
\* first; on 404 without the OCI-Filters-Applied header the referrers tag
\* is fetched and its manifests are filtered by the client.
Referrers(answer, manifests, digest, artifactType) ==
    IF answer.status = 200
      THEN [ requests |-> <<"ReqReferrersList">>,
             out |-> SliceSeq(IF answer.filtersApplied
                                THEN apiListing(manifests, artifactType, TRUE)
                                ELSE filterManifests(apiListing(manifests, artifactType, FALSE),
                                                     artifactType)) ]
    ELSE IF answer.filtersApplied
      THEN [ requests |-> <<"ReqReferrersList">>, out |-> ErrorSeq(ErrNameUnknown) ]
    ELSE [ requests |-> <<"ReqReferrersList", "ReqManifestGet">>,
           tag |-> referrersTag(digest),
           out |-> SliceSeq(filterManifests(manifests, artifactType)) ]

\* for desc, err := range client.Referrers(ctx, repo, subject, artifactType),
\* where the server holds an index at the referrers tag of the subject.
ClientReferrers ==
    /\ referrersTag(SubjectDigest) = replaceColon(SubjectDigest)
    /\ \E answer \in ReferrersAnswers, manifests \in ReferrerIndexes,
          artifactType \in ArtifactTypeFilters :
          last' = [ op |-> "Referrers", answer |-> answer, manifests |-> manifests,
                    artifactType |-> artifactType,
                    res |-> Referrers(answer, manifests, SubjectDigest, artifactType) ]
    /\ UNCHANGED net
    /\ NetFrame

InitClient == Init

NextClient ==
    \/ ClientBegin
    \/ ClientSend
    \/ ClientReturn
    \/ ClientReferrersTag
    \/ ClientReferrers

SpecClient == InitClient /\ [][NextClient]_vars

\* C25: an operation called with a malformed repository name or a
\* malformed digest returns an error that starts with "invalid OCI
\* request: " and carries NAME_INVALID, respectively DIGEST_INVALID, and
\* no request of the operation reaches the transport.
C25_BadArgumentsFailLocally ==
    net.pc # "idle" =>
        LET badName == \/ (net.op \in RepoOps /\ net.args.repo = BadRepo)
                       \/ (net.op = "MountBlob" /\ net.args.from = BadRepo)
            badDig  == net.op \in DigestOps /\ net.args.dig = BadDigestString
        IN  (badName \/ badDig) =>
              /\ net.pc = "done"
              /\ net.sent = <<>>
              /\ net.err.code # Nil
              /\ net.err.prefix = "invalid OCI request: "
              /\ (badName /\ ~badDig) => net.err.code = ErrNameInvalid
              /\ (badDig /\ ~badName) => net.err.code = ErrDigestInvalid
              /\ net.err.code \in {ErrNameInvalid, ErrDigestInvalid}

C25_Witness ==
    /\ net.pc = "done" /\ net.op = "GetBlob"
    /\ net.args.repo = GoodRepo /\ net.args.dig = BadDigestString
    /\ net.err.code = ErrDigestInvalid
    /\ net.sent = <<>>

\* The scope the interface documents for an operation, in string form.
RequiredScope(op, a) ==
    IF op \in ReadOps THEN << <<"repository", a.repo, <<"pull">> >> >>
    ELSE IF op \in WriteOps THEN << <<"repository", a.repo, <<"push">> >> >>
    ELSE IF op = "MountBlob"
      THEN << <<"repository", a.from, <<"pull">> >>, <<"repository", a.repo, <<"push">> >> >>
    ELSE << <<"registry", "catalog", <<"*">> >> >>

\* C26: every request of one interface operation carries the scope of
\* the operation: pull on the repository for reads, push for writes, pull
\* on the source and push on the destination for a mount, registry:catalog:*
\* for the catalog.
C26_OneScopePerOperation ==
    net.pc # "idle" =>
        \A i \in 1 .. Len(net.sent) : net.sent[i].scope = RequiredScope(net.op, net.args)

C26_Witness ==
    /\ net.pc = "done" /\ net.op = "PushBlobChunked"
    /\ Len(net.sent) = 5
    /\ net.sent[3].kind = "ReqBlobUploadInfo"
    /\ net.sent[3].scope = << <<"repository", GoodRepo, <<"push">> >> >>

\* C27: when the referrers endpoint answers 404 without the
\* OCI-Filters-Applied header, Referrers fetches the referrers tag of the
\* subject and yields the descriptors of the index at that tag, in order
\* and without error: all of them without a filter, those of the asked
\* artifact type with one.
C27_ReferrersFallback ==
    (last.op = "Referrers" /\ last.answer.status = 404 /\ ~last.answer.filtersApplied) =>
        LET kept == { i \in 1 .. Len(last.manifests) :
                        last.artifactType = "" \/ last.manifests[i].artifactType = last.artifactType }
            out  == last.res.out
        IN  /\ last.res.requests = <<"ReqReferrersList", "ReqManifestGet">>
            /\ last.res.tag = replaceColon(SubjectDigest)
            /\ Len(out) = Cardinality(kept)
            /\ \A i \in 1 .. Len(out) : out[i].err = Nil
            /\ \A i \in kept :
                  out[Cardinality({ j \in kept : j <= i })].value = last.manifests[i]

C27_Witness ==
    /\ last.op = "Referrers" /\ last.answer.status = 404 /\ ~last.answer.filtersApplied
    /\ last.artifactType = "referrer/2"
    /\ Len(last.manifests) = 3 /\ last.manifests[1].artifactType = "referrer/2"
    /\ Len(last.res.out) = 2
    /\ last.res.out[2].value = ReferrerDesc(3, "referrer/2")

\* The first n characters of str, each character that a tag cannot
\* contain replaced by "-".
CutAndCleaned(str, n) ==
    [i \in 1 .. (IF Len(str) < n THEN Len(str) ELSE n) |->
        IF str[i] \in {"+", "="} THEN "-" ELSE str[i]]

\* C28 as stated: the referrers tag is the algorithm and the encoded part,
\* each with its invalid characters replaced by "-" and each cut to 64
\* characters, joined by "-".
C28_BothCutTo64 ==
    last.op = "referrersTag" =>
        last.tag = CutAndCleaned(last.digest.alg, 64) \o <<"-">> \o CutAndCleaned(last.digest.enc, 64)

\* C28, amended: the algorithm is cut to 32 characters and the encoded
\* part to 64.
C28_ReferrersTag ==
    last.op = "referrersTag" =>
        last.tag = CutAndCleaned(last.digest.alg, 32) \o <<"-">> \o CutAndCleaned(last.digest.enc, 64)

C28_Witness ==
    /\ last.op = "referrersTag"
    /\ Len(last.digest.alg) = 65
    /\ Len(last.digest.enc) = 128
    /\ Len(last.tag) = 97

\* ------------------------------------------------------------------
\* The auth configuration: where Load finds it and how EntryForRegistry
\* chooses among the keys of "auths".
\*
\* env holds <<"env", v>> when the environment variable v is set to a
\* non-empty value and <<"file", v>> when the configuration file of the
\* location of v exists.

\* The locations in the order Load tries them; the first is inline JSON.
Locations == <<"DOCKER_AUTH_CONFIG", "DOCKER_CONFIG", "HOME", "XDG_RUNTIME_DIR">>
isInline(loc) == loc = "DOCKER_AUTH_CONFIG"

SomeRegistry == "someregistry.example.com"

\* A key of "auths": a bare host (no scheme, no path) or a URL.
HostKey(h) == [scheme |-> "", host |-> h, path |-> ""]
URLKey(s, h, p) == [scheme |-> s, host |-> h, path |-> p]

EmptyEntry == [Username |-> "", Password |-> ""]
EmptyConfig == [auths |-> <<>>]

\* The configuration TestLoad writes at a location: one entry for the
\* registry, with the name of the location as the user name.
configAt(loc) ==
    [auths |-> << [key |-> HostKey(SomeRegistry),
                   entry |-> [Username |-> loc, Password |-> "somepassword"]] >>]

\* The location has a configuration to read.
hasConfig(e, loc) ==
    /\ <<"env", loc>> \in e
    /\ isInline(loc) \/ <<"file", loc>> \in e

RECURSIVE loadFrom_LastWins(_, _)
\* The last location that has a configuration.
loadFrom_LastWins(e, i) ==
    IF i > Len(Locations) THEN EmptyConfig
    ELSE LET rest == loadFrom_LastWins(e, i + 1)
         IN  IF rest # EmptyConfig THEN rest
             ELSE IF hasConfig(e, Locations[i]) THEN configAt(Locations[i])
             ELSE EmptyConfig

RECURSIVE loadFrom(_, _)
\* Load: the configuration of the first location, from the i-th on, that
\* has one; the empty configuration when none has.
loadFrom(e, i) ==
    IF i > Len(Locations) THEN EmptyConfig
    ELSE IF hasConfig(e, Locations[i]) THEN configAt(Locations[i])
    ELSE loadFrom(e, i + 1)

Load(e) == loadFrom(e, 1)

\* The keys of the configurations tried, in the order of their strings.
SortedKeys ==
    << URLKey("http", SomeRegistry, "/v1"), URLKey("http", SomeRegistry, "/v2"),
       URLKey("https", "other.example.com", "/v1"), URLKey("https", SomeRegistry, "/v1"),
       HostKey(SomeRegistry) >>

AuthKeys == { SortedKeys[i] : i \in 1 .. Len(SortedKeys) }

\* The configuration with the given keys; the user name of an entry tells
\* its key.
configWith(keys) ==
    [auths |-> [i \in 1 .. Len(SelectSeq(SortedKeys, LAMBDA k : k \in keys)) |->
                  LET k == SelectSeq(SortedKeys, LAMBDA x : x \in keys)[i]
                  IN  [key |-> k, entry |-> [Username |-> k, Password |-> "p"]]]]

\* The argument of EntryForRegistry as a key: a bare host, or the URL
\* it spells.
LookupNames == { HostKey(SomeRegistry), URLKey("https", SomeRegistry, "/v1"),
                 HostKey("some.org") }

entryOf(c, k) == c.auths[CHOOSE i \in 1 .. Len(c.auths) : c.auths[i].key = k].entry

\* The URL-form keys, whatever their host.
urlMatches_AnyHost(c, name) ==
    { c.auths[i].key : i \in { j \in 1 .. Len(c.auths) : c.auths[j].key.scheme # "" } }

\* The URL-form keys of the configuration whose host, with scheme and
\* path stripped, is the given one.
urlMatches(c, name) ==
    { c.auths[i].key : i \in { j \in 1 .. Len(c.auths) :
                                  /\ c.auths[j].key.scheme # ""
                                  /\ c.auths[j].key.host = name.host } }

\* c.EntryForRegistry(name): the entry whose key is exactly the name;
\* otherwise the entry of the one URL-form key with that host; an error
\* that lists the keys, sorted, when there are several; the empty entry
\* when there is none.
EntryForRegistry(c, name) ==
    IF \E i \in 1 .. Len(c.auths) : c.auths[i].key = name
      THEN [entry |-> entryOf(c, name), err |-> Nil, keys |-> <<>>]
    ELSE IF name.scheme # "" \/ urlMatches(c, name) = {}
      THEN [entry |-> EmptyEntry, err |-> Nil, keys |-> <<>>]
    ELSE IF Cardinality(urlMatches(c, name)) = 1
      THEN [entry |-> entryOf(c, CHOOSE k \in urlMatches(c, name) : TRUE),
            err |-> Nil, keys |-> <<>>]
    ELSE [entry |-> EmptyEntry, err |-> "more than one auths entry",
          keys |-> SelectSeq(SortedKeys, LAMBDA k : k \in urlMatches(c, name))]

AuthFrame == UNCHANGED <<cfg, repos, heap, writer, scn, slices, inflight, funcs, net, filt, ib>>

\* t.Setenv(loc, ...)
AuthSetenv ==
    /\ \E i \in 1 .. Len(Locations) : env' = env \cup { <<"env", Locations[i]>> }
    /\ UNCHANGED last
    /\ AuthFrame

\* os.WriteFile of the configuration file of a location.
AuthWriteFile ==
    /\ \E i \in 1 .. Len(Locations) :
          /\ ~isInline(Locations[i])
          /\ env' = env \cup { <<"file", Locations[i]>> }
    /\ UNCHANGED last
    /\ AuthFrame

\* os.Unsetenv(loc)
AuthUnsetenv ==
    /\ \E i \in 1 .. Len(Locations) :
          /\ <<"env", Locations[i]>> \in env
          /\ env' = env \ { <<"env", Locations[i]>> }
    /\ UNCHANGED last
    /\ AuthFrame

\* os.RemoveAll of the directory of a location.
AuthRemoveAll ==
    /\ \E i \in 1 .. Len(Locations) :
          /\ <<"file", Locations[i]>> \in env
          /\ env' = env \ { <<"file", Locations[i]>> }
    /\ UNCHANGED last
    /\ AuthFrame

\* c, err := Load(noRunner); info, err := c.EntryForRegistry(...)
AuthLoad ==
    /\ last' = [ op |-> "Load", env |-> env, err |-> Nil, config |-> Load(env),
                 res |-> EntryForRegistry(Load(env), HostKey(SomeRegistry)) ]
    /\ UNCHANGED env
    /\ AuthFrame

\* c.EntryForRegistry(name) on a configuration with the given keys.
AuthEntryForRegistry ==
    /\ \E keys \in SUBSET AuthKeys, name \in LookupNames :
          last' = [ op |-> "EntryForRegistry", keys |-> keys, name |-> name,
                    res |-> EntryForRegistry(configWith(keys), name) ]
    /\ UNCHANGED env
    /\ AuthFrame

\* The credential helpers: "test" is the helper the tests install,
\* "definitely-not-found-executable" has no executable; "" is no helper.
HelperNames == {"", "test", "definitely-not-found-executable"}
HelperHosts == {"registry-with-basic-auth.com", "registry-with-error.com", "other.com"}
ErrHelperNotFound == "helper not found"
ErrSomeError == "some error"

\* The helper runner: the runner that executes docker-credential-<name>
\* ("exec"), or the runner of TestWithDefaultHelperOtherError that always
\* fails ("errHelper").  The helper of the tests knows one registry,
\* fails for another and reports the others as not found, which the
\* runner turns into an empty entry.
runHelper(runner, helper, host) ==
    IF runner = "errHelper" THEN [entry |-> EmptyEntry, err |-> ErrSomeError]
    ELSE IF helper # "test" THEN [entry |-> EmptyEntry, err |-> ErrHelperNotFound]
    ELSE IF host = "registry-with-basic-auth.com"
      THEN [entry |-> [Username |-> "someuser", Password |-> "somesecret"], err |-> Nil]
    ELSE IF host = "registry-with-error.com"
      THEN [entry |-> EmptyEntry, err |-> ErrSomeError]
    ELSE [entry |-> EmptyEntry, err |-> Nil]

\* A missing helper is an error whichever way it was configured.
ignoreHelperError_Never(err, isDefault) == FALSE

\* The helper's failure is passed over when the helper is the default
\* one (credsStore) and its executable is missing.
ignoreHelperError(err, isDefault) == isDefault /\ err = ErrHelperNotFound

\* EntryForRegistry with helpers: the helper of credHelpers for the host,
\* otherwise the helper of credsStore, is asked first; the "auths" entry
\* is used when there is no helper or its failure is passed over.
EntryForRegistryWithHelpers(c, host, runner) ==
    LET specific == c.credHelpers[host]
        helper   == IF specific # "" THEN specific ELSE c.credsStore
        got      == runHelper(runner, helper, host)
        fromAuths == EntryForRegistry(c, HostKey(host))
    IN  IF helper = "" THEN [entry |-> fromAuths.entry, err |-> fromAuths.err, asked |-> ""]
        ELSE IF ignoreHelperError(got.err, specific = "")
          THEN [entry |-> fromAuths.entry, err |-> fromAuths.err, asked |-> helper]
        ELSE [entry |-> got.entry, err |-> got.err, asked |-> helper]

\* The configuration with a helper for the host, a default helper and,
\* or not, an "auths" entry for the host.
helperConfig(host, specific, store, withAuths) ==
    [ auths |-> IF withAuths
                THEN << [key |-> HostKey(host), entry |-> [Username |-> "u1", Password |-> "p"]] >>
                ELSE <<>>,
      credHelpers |-> [h \in HelperHosts |-> IF h = host THEN specific ELSE ""],
      credsStore |-> store ]

\* c.EntryForRegistry(host) on a configuration with helpers.
AuthHelperLookup ==
    /\ \E host \in HelperHosts, specific \in HelperNames, store \in HelperNames,
          withAuths \in BOOLEAN, runner \in {"exec", "errHelper"} :
          last' = [ op |-> "HelperLookup", host |-> host, specific |-> specific,
                    store |-> store, withAuths |-> withAuths, runner |-> runner,
                    res |-> EntryForRegistryWithHelpers(
                               helperConfig(host, specific, store, withAuths), host, runner) ]
    /\ UNCHANGED env
    /\ AuthFrame

InitAuth == Init

NextAuth ==
    \/ AuthSetenv
    \/ AuthWriteFile
    \/ AuthUnsetenv
    \/ AuthRemoveAll
    \/ AuthLoad
    \/ AuthEntryForRegistry
    \/ AuthHelperLookup

SpecAuth == InitAuth /\ [][NextAuth]_vars

\* The locations that have a configuration when Load is called.
Present(e) ==
    { i \in 1 .. Len(Locations) :
        /\ <<"env", Locations[i]>> \in e
        /\ (i = 1 \/ <<"file", Locations[i]>> \in e) }

\* C29: Load reads the configuration of the first of DOCKER_AUTH_CONFIG,
\* $DOCKER_CONFIG/config.json, $HOME/.docker/config.json and
\* $XDG_RUNTIME_DIR/containers/auth.json that is there, and that one only;
\* when none is there it returns the empty configuration without error and
\* EntryForRegistry returns the empty entry.
C29_ConfigPrecedence ==
    last.op = "Load" =>
        /\ last.err = Nil
        /\ last.res.err = Nil
        /\ Present(last.env) = {} =>
              (last.config = EmptyConfig /\ last.res.entry = EmptyEntry)
        /\ \A i \in Present(last.env) :
              (\A j \in Present(last.env) : i <= j) =>
                  last.res.entry = [Username |-> Locations[i], Password |-> "somepassword"]

C29_Witness ==
    /\ last.op = "Load"
    /\ Present(last.env) = {3, 4}
    /\ <<"env", "DOCKER_CONFIG">> \in last.env
    /\ last.res.entry.Username = "HOME"

\* C30: a key that is exactly the host wins over URL-form keys; without
\* it, the one URL-form key with that host gives the entry; several
\* URL-form keys with that host give an error that lists them all, sorted.
C30_KeyMatching ==
    (last.op = "EntryForRegistry" /\ last.name = HostKey(SomeRegistry)) =>
        LET urls == { k \in last.keys : k.scheme # "" /\ k.host = SomeRegistry }
        IN  /\ HostKey(SomeRegistry) \in last.keys =>
                  (last.res.err = Nil /\ last.res.entry.Username = HostKey(SomeRegistry))
            /\ (HostKey(SomeRegistry) \notin last.keys /\ Cardinality(urls) = 1) =>
                  (last.res.err = Nil /\ last.res.entry.Username \in urls)
            /\ (HostKey(SomeRegistry) \notin last.keys /\ Cardinality(urls) > 1) =>
                  /\ last.res.err # Nil
                  /\ { last.res.keys[i] : i \in 1 .. Len(last.res.keys) } = urls
                  /\ Len(last.res.keys) = Cardinality(urls)
                  /\ \A i \in 1 .. Len(last.res.keys) - 1 :
                        \E a, b \in 1 .. Len(SortedKeys) :
                            /\ a < b
                            /\ SortedKeys[a] = last.res.keys[i]
                            /\ SortedKeys[b] = last.res.keys[i + 1]

C30_Witness ==
    /\ last.op = "EntryForRegistry" /\ last.name = HostKey(SomeRegistry)
    /\ HostKey(SomeRegistry) \notin last.keys
    /\ last.res.err # Nil
    /\ last.res.keys = << URLKey("http", SomeRegistry, "/v1"), URLKey("http", SomeRegistry, "/v2"),
                          URLKey("https", SomeRegistry, "/v1") >>

\* C31: a missing helper that is configured for the host is an error
\* (helper not found); a missing default helper is passed over and the
\* "auths" entry of the host is returned; any other error of a helper is
\* returned, whichever way the helper is configured; a helper that does
\* not know the registry gives the empty entry and no error.
C31_HelperFailurePolicy ==
    last.op = "HelperLookup" =>
        LET missing == "definitely-not-found-executable"
            used    == IF last.specific # "" THEN last.specific ELSE last.store
            auths   == IF last.withAuths THEN [Username |-> "u1", Password |-> "p"] ELSE EmptyEntry
        IN  /\ (last.runner = "exec" /\ last.specific = missing) =>
                  last.res.err = ErrHelperNotFound
            /\ (last.runner = "exec" /\ last.specific = "" /\ last.store = missing) =>
                  (last.res.err = Nil /\ last.res.entry = auths)
            /\ (used # "" /\ (last.runner = "errHelper"
                              \/ (used = "test" /\ last.host = "registry-with-error.com"))) =>
                  last.res.err = ErrSomeError
            /\ (last.runner = "exec" /\ used = "test" /\ last.host = "other.com") =>
                  (last.res.err = Nil /\ last.res.entry = EmptyEntry)

C31_Witness ==
    /\ last.op = "HelperLookup" /\ last.runner = "exec"
    /\ last.specific = "" /\ last.store = "definitely-not-found-executable"
    /\ last.withAuths
    /\ last.res.asked = "definitely-not-found-executable"
    /\ last.res.entry.Username = "u1"

\* ------------------------------------------------------------------
\* ocifilter.Immutable around the in-memory registry.
\*
\* The wrapper holds no lock: its PushManifest is a sequence of calls of
\* the wrapped registry (ResolveTag for each tag, PushManifest, ResolveTag
\* for each tag again), each of which is atomic under the registry's
\* mutex, and calls of several callers interleave between them.

\* r.ResolveTag(repo, tag) of the wrapped registry.
ResolveTag(rs, repoName, tag) ==
    IF repoName \notin DOMAIN rs THEN [err |-> ErrNameUnknown, desc |-> ZeroDescriptor]
    ELSE IF tag \notin DOMAIN rs[repoName].tags
      THEN [err |-> "MANIFEST_UNKNOWN", desc |-> ZeroDescriptor]
    ELSE [err |-> Nil, desc |-> rs[repoName].tags[tag]]

ImmInputs == {<<>>, <<2, 1>>}
ImmTagLists == {<<>>, <<"t1">>, <<"t1", "t2">>}

\* The end of a call: what it returns, and whether its PushManifest of the
\* wrapped registry stored anything.
immDone(call, err, ret) == [call EXCEPT !.pc = "done", !.err = err, !.ret = ret]

\* Lines 38-51: without tags the call is the wrapped PushManifest; with
\* tags the digest is computed and the tags are looked at first.
ImmBegin(c) ==
    /\ filt[c].pc = "idle"
    /\ \E data \in ImmInputs, tags \in ImmTagLists :
          LET call == [pc |-> "check", data |-> data, tags |-> tags, dig |-> FromBytes(data),
                       i |-> 1, err |-> Nil, ret |-> ZeroDescriptor, pushed |-> FALSE,
                       unset |-> {}]
              res  == DoPushManifest(cfg, repos, "a", data, "mtA",
                                     [digest |-> NoDigest, tags |-> tags])
          IN  IF Len(tags) = 0
              THEN /\ filt' = [filt EXCEPT ![c] =
                                 immDone([call EXCEPT !.pushed = res.stored], res.err, res.ret)]
                   /\ repos' = res.repos
              ELSE /\ filt' = [filt EXCEPT ![c] = call]
                   /\ UNCHANGED repos
    /\ UNCHANGED <<cfg, heap, writer, last, scn, slices, inflight, funcs, net, env, ib>>

\* Lines 53-61, one tag: a tag that resolves to another digest denies the
\* call; one that resolves to the same digest, or does not resolve, is
\* passed.
ImmCheck(c) ==
    /\ filt[c].pc = "check"
    /\ LET call == filt[c]
           tag  == call.tags[call.i]
           got  == ResolveTag(repos, "a", tag)
           next == [call EXCEPT !.i = @ + 1,
                                !.pc = IF call.i = Len(call.tags) THEN "push" ELSE "check",
                                !.unset = IF got.err = Nil THEN @ ELSE @ \cup {tag}]
       IN  filt' = [filt EXCEPT ![c] =
                      IF got.err = Nil /\ got.desc.digest # call.dig
                      THEN immDone(call, WrapW(ErrDenied), ZeroDescriptor)
                      ELSE next]
    /\ UNCHANGED <<cfg, repos, heap, writer, last, scn, slices, inflight, funcs, net, env, ib>>

\* Lines 62-65: the wrapped PushManifest.
ImmPush(c) ==
    /\ filt[c].pc = "push"
    /\ LET call == filt[c]
           res  == DoPushManifest(cfg, repos, "a", call.data, "mtA",
                                  [digest |-> NoDigest, tags |-> call.tags])
       IN  /\ repos' = res.repos
           /\ filt' = [filt EXCEPT ![c] =
                         IF res.err # Nil
                         THEN immDone([call EXCEPT !.pushed = res.stored], res.err, ZeroDescriptor)
                         ELSE [call EXCEPT !.pc = "verify", !.i = 1, !.ret = res.ret,
                                           !.pushed = res.stored]]
    /\ UNCHANGED <<cfg, heap, writer, last, scn, slices, inflight, funcs, net, env, ib>>

\* Lines 69-79, one tag: the tag must resolve to the digest just pushed.
ImmVerify(c) ==
    /\ filt[c].pc = "verify"
    /\ LET call == filt[c]
           got  == ResolveTag(repos, "a", call.tags[call.i])
       IN  filt' = [filt EXCEPT ![c] =
                      IF got.err # Nil THEN immDone(call, WrapV(got.err), ZeroDescriptor)
                      ELSE IF got.desc.digest # call.dig
                        THEN immDone(call, WrapW(ErrDenied), ZeroDescriptor)
                      ELSE IF call.i = Len(call.tags) THEN immDone(call, Nil, call.ret)
                      ELSE [call EXCEPT !.i = @ + 1]]
    /\ UNCHANGED <<cfg, repos, heap, writer, last, scn, slices, inflight, funcs, net, env, ib>>

\* The caller has its result and may call again.
ImmReturn(c) ==
    /\ filt[c].pc = "done"
    /\ filt' = [filt EXCEPT ![c] = NoFiltCall]
    /\ UNCHANGED <<cfg, repos, heap, writer, last, scn, slices, inflight, funcs, net, env, ib>>

\* A delete that is handed to the wrapped registry.
immutableDelete_Forward(rs, method, repoName, target) ==
    [ err |-> Nil, wrapped |-> <<method>>,
      repos |-> IF method = "DeleteTag" /\ repoName \in DOMAIN rs
                THEN [rs EXCEPT ![repoName].tags = [t \in (DOMAIN @) \ {target} |-> @[t]]]
                ELSE rs ]

\* Lines 82-92: DeleteBlob, DeleteManifest and DeleteTag return ErrDenied.
immutableDelete(rs, method, repoName, target) ==
    [ err |-> ErrDenied, wrapped |-> <<>>, repos |-> rs ]

\* A delete through the wrapper: of a tag, or of a digest.
ImmDelete ==
    /\ \E method \in {"DeleteBlob", "DeleteManifest", "DeleteTag"} :
       \E target \in IF method = "DeleteTag" THEN {"t1", "t2"}
                     ELSE {FromBytes(d) : d \in ImmInputs} :
          LET res == immutableDelete(repos, method, "a", target)
          IN  /\ repos' = res.repos
              /\ last' = [op |-> "ImmDelete", method |-> method, target |-> target,
                          err |-> res.err, wrapped |-> res.wrapped]
    /\ UNCHANGED <<cfg, heap, writer, scn, slices, inflight, funcs, net, env, filt, ib>>

ImmutableBegin == \E c \in ImmCallers : ImmBegin(c)
ImmutableCheck == \E c \in ImmCallers : ImmCheck(c)
ImmutablePush == \E c \in ImmCallers : ImmPush(c)
ImmutableVerify == \E c \in ImmCallers : ImmVerify(c)
ImmutableReturn == \E c \in ImmCallers : ImmReturn(c)

InitImmutable == Init

NextImmutable ==
    \/ ImmutableBegin
    \/ ImmutableCheck
    \/ ImmutablePush
    \/ ImmutableVerify
    \/ ImmutableReturn
    \/ ImmDelete

SpecImmutable == InitImmutable /\ [][NextImmutable]_vars

\* C32: through the wrapper a tag that resolves to a digest never comes to
\* resolve to another digest, whatever the callers do and however their
\* calls interleave.
C32_TagsNeverChange ==
    [][\A t \in {"t1", "t2"} :
          ResolveTag(repos, "a", t).err = Nil =>
             /\ ResolveTag(repos', "a", t).err = Nil
             /\ ResolveTag(repos', "a", t).desc.digest = ResolveTag(repos, "a", t).desc.digest]_vars

\* C33: DeleteBlob, DeleteManifest and DeleteTag of the wrapper return
\* DENIED, make no call of the wrapped registry and leave its state as it
\* was.
C33_NothingIsDeleted ==
    [][ImmDelete => (/\ last'.err = ErrDenied
                     /\ last'.wrapped = <<>>
                     /\ repos' = repos)]_vars

C33_Witness ==
    /\ last.op = "ImmDelete" /\ last.method = "DeleteTag" /\ last.target = "t1"
    /\ ResolveTag(repos, "a", "t1").err = Nil
    /\ last.err = ErrDenied

\* C35: of two calls that push different content under the same tag, each
\* having found the tag unset, at most one returns success, and the tag
\* resolves to the digest of the one that does.
C35_OneWinner ==
    (/\ filt["c1"].pc = "done" /\ filt["c2"].pc = "done"
     /\ filt["c1"].tags = <<"t1">> /\ filt["c2"].tags = <<"t1">>
     /\ filt["c1"].dig # filt["c2"].dig
     /\ "t1" \in filt["c1"].unset /\ "t1" \in filt["c2"].unset) =>
        /\ ~(filt["c1"].err = Nil /\ filt["c2"].err = Nil)
        /\ \A c \in ImmCallers :
              filt[c].err = Nil => ResolveTag(repos, "a", "t1").desc.digest = filt[c].dig

\* C36: a call of the wrapper's PushManifest that returns DENIED has
\* written nothing to the wrapped registry.
C36_DeniedWritesNothing ==
    \A c \in ImmCallers :
        (filt[c].pc = "done" /\ filt[c].err = ErrDenied) => ~filt[c].pushed

\* The manifests and tags of a repository; none when it does not exist.
ManifestsOf(rs, repoName) == IF repoName \in DOMAIN rs THEN rs[repoName].manifests ELSE Empty
TagsOf(rs, repoName) == IF repoName \in DOMAIN rs THEN rs[repoName].tags ELSE Empty

\* C37: a PushManifest that returns success has the manifest stored under
\* the returned digest and every tag of the call mapped to the returned
\* descriptor; a PushManifest with a malformed tag fails and stores neither
\* a manifest nor a tag.
C37_PushManifestPostcondition ==
    [][last'.op = "PushManifest" =>
          /\ last'.err = Nil =>
                /\ last'.ret.digest \in DOMAIN ManifestsOf(repos', last'.repo)
                /\ \A i \in 1 .. Len(last'.tags) :
                      /\ last'.tags[i] \in DOMAIN TagsOf(repos', last'.repo)
                      /\ TagsOf(repos', last'.repo)[last'.tags[i]] = last'.ret
          /\ (\E i \in 1 .. Len(last'.tags) : ~IsValidTag(last'.tags[i])) =>
                /\ last'.err # Nil
                /\ ManifestsOf(repos', last'.repo) = ManifestsOf(repos, last'.repo)
                /\ TagsOf(repos', last'.repo) = TagsOf(repos, last'.repo)]_vars

\* C38: the media type and the size of the descriptor of every tag are the
\* media type and the length of the manifest stored under its digest.
C38_TagDescribesManifest ==
    \A r \in DOMAIN repos : \A t \in DOMAIN repos[r].tags :
        LET d == repos[r].tags[t]
        IN  d.digest \in DOMAIN repos[r].manifests =>
              /\ d.mediaType = repos[r].manifests[d.digest].mediaType
              /\ d.size = Len(repos[r].manifests[d.digest].data)

\* ---------------------------------------------------------------------
\* ocibuilder.ImageBuilder: the manifest it builds and PushLayer.
\* ---------------------------------------------------------------------

\* The size of a chunk (100 MB in the source, scaled), the most bytes a
\* reader holds, and the most entries a manifest is given.
CHUNK_SIZE == 2
MaxRead == 3
MaxEntries == 2

\* The descriptor the caller passes in, and the one Commit returns with
\* the media type of the layer set.
Descs == { [MediaType |-> "mt", Size |-> 1, Digest |-> "d1"] }
PushedDesc == [MediaType |-> "layer", Size |-> 0, Digest |-> "pushed"]

ErrSetConfig == "cannot set config on index manifest"
ErrAddLayer == "cannot add layers to an index manifest"
ErrAddManifest == "cannot add manifest to an manifest"
ErrRead == "read error"
ErrWrite == "write error"
ErrOpen == "PushBlobChunked error"
ErrCommit == "commit error"
EOF == "EOF"
ErrUnexpectedEOF == "unexpected EOF"

\* SetConfig, AddLayer and AddManifest as functions of the manifest: the
\* error returned and the manifest afterwards.
setConfig(m, config) ==
    IF Len(m.Manifests) > 0
    THEN [err |-> ErrSetConfig, manifest |-> m]
    ELSE [err |-> Nil, manifest |-> [m EXCEPT !.Config = config]]

addLayer(m, layer) ==
    IF Len(m.Manifests) > 0
    THEN [err |-> ErrAddLayer, manifest |-> m]
    ELSE [err |-> Nil, manifest |-> [m EXCEPT !.Layers = Append(@, layer)]]

addManifest(m, manifest) ==
    IF Len(m.Layers) > 0
    THEN [err |-> ErrAddManifest, manifest |-> m]
    ELSE [err |-> Nil,
          manifest |-> [m EXCEPT !.MediaType = IndexMediaType,
                                 !.Manifests = Append(@, manifest)]]

\* The builder is between calls and its lists have room.
BldIdle == ib.pc = "idle"
BldRoom == Len(ib.manifest.Layers) + Len(ib.manifest.Manifests) < MaxEntries

BldReturn(op, r) ==
    /\ ib' = [ib EXCEPT !.manifest = r.manifest]
    /\ last' = [op |-> op, err |-> r.err]

BldFrame == UNCHANGED <<cfg, repos, heap, writer, scn, slices, inflight, funcs, net, env, filt>>

SetArtifactType ==
    /\ BldIdle
    /\ \E artifactType \in {"", "at"} :
          BldReturn("SetArtifactType",
                    [err |-> Nil, manifest |-> [ib.manifest EXCEPT !.ArtifactType = artifactType]])
    /\ BldFrame

SetSubject ==
    /\ BldIdle
    /\ \E subject \in Descs \cup {NoDesc} :
          BldReturn("SetSubject",
                    [err |-> Nil, manifest |-> [ib.manifest EXCEPT !.Subject = subject]])
    /\ BldFrame

SetConfig ==
    /\ BldIdle
    /\ \E config \in Descs : BldReturn("SetConfig", setConfig(ib.manifest, config))
    /\ BldFrame

AddLayer ==
    /\ BldIdle
    /\ BldRoom
    /\ \E layer \in Descs : BldReturn("AddLayer", addLayer(ib.manifest, layer))
    /\ BldFrame

AddManifest ==
    /\ BldIdle
    /\ BldRoom
    /\ \E manifest \in Descs : BldReturn("AddManifest", addManifest(ib.manifest, manifest))
    /\ BldFrame

\* A reader: the bytes it still has, and after how many more bytes its
\* Read fails (-1: never); a sticky reader keeps failing once it has
\* failed, another one fails once.
Readers ==
    { r \in [left : 0 .. MaxRead, failAt : -1 .. MaxRead, sticky : BOOLEAN] :
        /\ r.failAt <= r.left
        /\ r.sticky => r.failAt >= 0 }

Min(a, b) == IF a < b THEN a ELSE b

\* io.ReadFull(reader, buf) with len(buf) = size: it reads until the
\* buffer is full, the reader ends or a Read fails.
ReadFull(reader, size) ==
    IF reader.failAt >= 0 /\ reader.failAt < size
    THEN [ n |-> reader.failAt, err |-> ErrRead,
           reader |-> [reader EXCEPT !.left = @ - reader.failAt,
                                     !.failAt = IF reader.sticky THEN 0 ELSE -1] ]
    ELSE LET n == Min(reader.left, size)
         IN  [ n |-> n,
               err |-> IF n = size THEN Nil ELSE IF n = 0 THEN EOF ELSE ErrUnexpectedEOF,
               reader |-> [reader EXCEPT !.left = @ - n,
                                         !.failAt = IF @ >= 0 THEN @ - n ELSE @] ]

\* PushLayer as far as the for loop: the result of PushBlobChunked is
\* taken without its error, so that bw is nil when the call failed.
PushLayer ==
    /\ BldIdle
    /\ Len(ib.manifest.Layers) + Len(ib.manifest.Manifests) < MaxEntries
    /\ \E reader \in Readers, annotations \in {0, 1}, openErr \in {Nil, ErrOpen} :
          ib' = [ manifest |-> ib.manifest, pc |-> "read", reader |-> reader,
                  annotations |-> annotations, openErr |-> openErr,
                  bw |-> IF openErr = Nil THEN "writer" ELSE "nil",
                  n |-> 0, err |-> Nil, i |-> 0 ]
    /\ UNCHANGED last
    /\ BldFrame

\* The call ends: it returns err, or it panics.
pushLayerEnd(err, panicked, manifest) ==
    /\ ib' = [manifest |-> manifest, pc |-> IF panicked THEN "panicked" ELSE "idle"]
    /\ last' = [ op |-> "PushLayer", err |-> err, openErr |-> ib.openErr,
                 panicked |-> panicked,
                 appended |-> Len(manifest.Layers) > Len(ib.manifest.Layers) ]

\* n, err := io.ReadFull(reader, buf); break on io.EOF.
PushLayerRead ==
    /\ ib.pc = "read"
    /\ LET r == ReadFull(ib.reader, CHUNK_SIZE)
       IN  ib' = [ib EXCEPT !.reader = r.reader, !.n = r.n, !.err = r.err, !.i = 0,
                            !.pc = IF r.err = EOF THEN "commit" ELSE "write"]
    /\ UNCHANGED last
    /\ BldFrame

\* One turn of the loop that writes the chunk, and what follows it: a
\* Write on a nil writer panics; err is what the last Write returned.
PushLayerWrite ==
    /\ ib.pc = "write"
    /\ IF ib.bw = "nil"
       THEN pushLayerEnd(Nil, TRUE, ib.manifest)
       ELSE \E err \in {Nil, ErrWrite} :
               IF err = Nil
               THEN /\ ib' = [ib EXCEPT !.i = @ + 1, !.err = Nil, !.pc = "read"]
                    /\ UNCHANGED last
               ELSE IF ib.i + 1 < 3
               THEN /\ ib' = [ib EXCEPT !.i = @ + 1, !.err = err]
                    /\ UNCHANGED last
               ELSE pushLayerEnd(err, FALSE, ib.manifest)
    /\ BldFrame

\* bw.Commit, the media type and the annotations, and AddLayer: Commit on
\* a nil writer panics, and so does an annotation, written into the nil
\* map of the descriptor Commit returned.
PushLayerCommit ==
    /\ ib.pc = "commit"
    /\ IF ib.bw = "nil"
       THEN pushLayerEnd(Nil, TRUE, ib.manifest)
       ELSE \E err \in {Nil, ErrCommit} :
               IF err # Nil
               THEN pushLayerEnd(err, FALSE, ib.manifest)
               ELSE IF ib.annotations > 0
               THEN pushLayerEnd(Nil, TRUE, ib.manifest)
               ELSE LET r == addLayer(ib.manifest, PushedDesc)
                    IN  pushLayerEnd(r.err, FALSE, r.manifest)
    /\ BldFrame

InitBuilder == Init

NextBuilder ==
    \/ SetArtifactType
    \/ SetSubject
    \/ SetConfig
    \/ AddLayer
    \/ AddManifest
    \/ PushLayer
    \/ PushLayerRead
    \/ PushLayerWrite
    \/ PushLayerCommit

SpecBuilder == InitBuilder /\ [][NextBuilder]_vars

\* The goroutine that called PushLayer keeps running.
SpecBuilderLive ==
    /\ SpecBuilder
    /\ WF_vars(PushLayerRead)
    /\ WF_vars(PushLayerWrite)
    /\ WF_vars(PushLayerCommit)

\* C34: a PushLayer whose PushBlobChunked failed returns an error and
\* appends no layer.
C34_PushLayerReportsOpenFailure ==
    (last.op = "PushLayer" /\ last.openErr # Nil) =>
        /\ ~last.panicked
        /\ last.err # Nil
        /\ ~last.appended

\* C39: the builder never has Manifests together with Layers or a Config,
\* its media type is the index type exactly when it has Manifests, and an
\* operation that returns an error leaves the manifest as it was.
C39_ManifestOrIndex ==
    [][/\ Len(ib'.manifest.Manifests) > 0 =>
             /\ Len(ib'.manifest.Layers) = 0
             /\ ib'.manifest.Config = NoDesc
       /\ ib'.manifest.MediaType = IndexMediaType <=> Len(ib'.manifest.Manifests) > 0
       /\ (last' # last /\ last'.err # Nil) => ib'.manifest = ib.manifest]_vars

\* C40: the loop of PushLayer ends and the call ends, whatever the reader
\* does, and no chunk is written more than three times.
C40_PushLayerTerminates ==
    /\ [](ib.pc = "write" => ib.i < 3)
    /\ (ib.pc \in {"read", "write"}) ~> (ib.pc \in {"idle", "panicked"})
====
